---------------------------- MODULE Spec2Model ----------------------------
(***************************************************************************)
(* A model of the rylenko/cryptocurrency node: the blockchain engine       *)
(* (crates/blockchain) and the node's request handlers (crates/node).      *)
(*                                                                         *)
(* Abstractions used throughout:                                           *)
(*  - SHA-256 is collision free: a body-hash is modelled by the hashed     *)
(*    body itself (the record of the hashed fields), so two hashes are     *)
(*    equal exactly when the hashed fields are equal.  The hex prefix of   *)
(*    a block hash, which proof-of-work inspects, is a deterministic       *)
(*    function of the body (LeadingZeros).                                 *)
(*  - A recoverable ECDSA signature is the pair (signer, signed data):     *)
(*    recovery over the signed data yields the signer's address, recovery  *)
(*    over any other data yields an unrelated key.                         *)
(*  - u64 is scaled down to the range 0 .. U64_RANGE-1; arithmetic that    *)
(*    the code does unchecked wraps in a release build and panics in a     *)
(*    debug build (debug_build).                                           *)
(*  - Option<T> is <<>> (None) or <<x>> (Some(x)).                         *)
(***************************************************************************)
EXTENDS Integers, Sequences, FiniteSets, TLC

(***************************************************************************)
(* Program constants (crates/blockchain/src/consts.rs).                    *)
(***************************************************************************)
USER_TRANSACTIONS_PER_BLOCK == 2
TRANSACTIONS_PER_BLOCK == USER_TRANSACTIONS_PER_BLOCK + 1
GENESIS_BLOCK_REWARD == 100
PROOF_OF_WORK_DIFFICULTY == 4
MINING_REWARD == 1
STORAGE_ADDRESS == "STORAGE"
STORAGE_START_BALANCE == 100
STORAGE_REWARD == 1
STORAGE_REWARD_STARTING_FROM == 10

(***************************************************************************)
(* Bounds of the model.                                                    *)
(***************************************************************************)
\* u64 scaled down: values are 0 .. U64_RANGE-1 (stands for 2^64).
U64_RANGE == 256
\* Number of distinct hash prefixes the nonce search cycles through.
PowPeriod == 3
\* The clock runs from 0 to MaxTime.
MaxTime == 2
\* A chain holds at most MaxBlocks blocks.
MaxBlocks == 3

(***************************************************************************)
(* Identities.  MINER is this node's user, PEER the user of a peer node,   *)
(* ALICE a client with a key of her own.                                   *)
(***************************************************************************)
MINER == "M"
PEER == "P"
ALICE == "A"
MALLORY == "X"
Users == {MINER, PEER, ALICE}
Addresses == Users \cup {STORAGE_ADDRESS, MALLORY}

None == <<>>
Some(x) == <<x>>

\* `let v = ...;` followed by the code F that uses v.
Bind(v, F(_)) == F(v)
\* The `?` operator on a Result<(), E>: the error of `first`, else `rest`.
AndThen(first, rest) == IF first /= "Ok" THEN first ELSE rest

RECURSIVE SumOver(_, _)
SumOver(f, S) ==
    IF S = {} THEN 0
    ELSE LET x == CHOOSE y \in S : TRUE IN f[x] + SumOver(f, S \ {x})

EmptyBalanceState == [a \in {} |-> 0]
BalanceInsert(bs, address, value) ==
    [a \in (DOMAIN bs) \cup {address} |-> IF a = address THEN value ELSE bs[a]]

(***************************************************************************)
(* crates/blockchain/src/user.rs                                           *)
(***************************************************************************)
\* User::sign: the signature of `user` over `data`.
User_sign(user, data) == [signer |-> user, data |-> data]

\* recover_verify_key followed by convert_public_key_to_address.
RecoveredAddress(signature, data) ==
    IF signature.data = data THEN signature.signer ELSE "UNRELATED"

\* User::validate_signature
User_validate_signature(signature, data, address) ==
    IF RecoveredAddress(signature, data) /= address
    THEN "AddressesNotEquals"
    ELSE "Ok"

(***************************************************************************)
(* crates/blockchain/src/transaction.rs                                    *)
(***************************************************************************)
\* Transaction::new; random_string is what generate_random_string returned.
Transaction_new(sender, recipient, amount, previous_block_hash, random_string) ==
    [sender |-> sender, recipient |-> recipient, amount |-> amount,
     amount_to_storage |->
        IF amount >= STORAGE_REWARD_STARTING_FROM THEN STORAGE_REWARD ELSE 0,
     previous_block_hash |-> previous_block_hash,
     random_string |-> random_string, sender_signature |-> None]

\* Transaction::compute_hash: every field but the signature.
Transaction_compute_hash(t) ==
    [sender |-> t.sender, recipient |-> t.recipient, amount |-> t.amount,
     amount_to_storage |-> t.amount_to_storage,
     previous_block_hash |-> t.previous_block_hash,
     random_string |-> t.random_string]

\* Transaction::sign
Transaction_sign(t, user) ==
    [t EXCEPT !.sender_signature = Some(User_sign(user, Transaction_compute_hash(t)))]

\* Fault: validate_recipient that accepts STORAGE.
Transaction_validate_recipient_any(t) == "Ok"

\* Transaction::validate_recipient
Transaction_validate_recipient(t) ==
    IF t.recipient = STORAGE_ADDRESS THEN "RecipientIsStorage" ELSE "Ok"

\* Fault: validate_sender_signature that accepts any signature, or none.
Transaction_validate_sender_signature_unchecked(t) ==
    "Ok"

\* Transaction::validate_sender_signature
Transaction_validate_sender_signature(t) ==
    IF t.sender /= STORAGE_ADDRESS
    THEN IF t.sender_signature /= None
         THEN IF User_validate_signature(t.sender_signature[1],
                     Transaction_compute_hash(t), t.sender) = "Ok"
              THEN "Ok"
              ELSE "SenderSignatureVerifyFailed"
         ELSE "SenderSignatureIsEmpty"
    ELSE "Ok"

(***************************************************************************)
(* crates/blockchain/src/block.rs: structure, hash, proof of work.         *)
(***************************************************************************)
\* Block::new; created_at is what get_timestamp returned.
Block_new(miner, previous_hash, transactions, balance_state, created_at) ==
    [miner |-> miner, previous_hash |-> previous_hash,
     transactions |-> transactions, balance_state |-> balance_state,
     nonce |-> 0, created_at |-> created_at, miner_signature |-> None]

\* Block::compute_hash: every field but miner_signature.
Block_compute_hash(b) ==
    [miner |-> b.miner, previous_hash |-> b.previous_hash,
     transactions |-> b.transactions,
     balance_state |-> b.balance_state,
     nonce |-> b.nonce, created_at |-> b.created_at]

\* The number of leading '0' characters of the hex digest of hash h: a
\* deterministic function of the hashed body that the nonce steps through.
LeadingZeros(h) ==
    LET w == (h.nonce + h.created_at + Len(h.transactions)
              + Cardinality(DOMAIN h.balance_state)) % PowPeriod
    IN  IF w = 0 THEN PROOF_OF_WORK_DIFFICULTY ELSE w - 1

\* Block::validate_proof_of_work: hash.starts_with("0" * DIFFICULTY)
Block_validate_proof_of_work(b) ==
    IF LeadingZeros(Block_compute_hash(b)) < PROOF_OF_WORK_DIFFICULTY
    THEN "InvalidProofOfWork"
    ELSE "Ok"

\* Block::sign
Block_sign(b, user) ==
    [b EXCEPT !.miner_signature = Some(User_sign(user, Block_compute_hash(b)))]

\* Block::validate_is_signed
Block_validate_is_signed(b) ==
    IF b.miner_signature = None THEN "NotSigned" ELSE "Ok"

\* Block::validate_miner_signature
Block_validate_miner_signature(b) ==
    IF User_validate_signature(b.miner_signature[1], Block_compute_hash(b),
                               b.miner) = "Ok"
    THEN "Ok"
    ELSE "BadMinerSignature"


(***************************************************************************)
(* State.                                                                  *)
(***************************************************************************)
VARIABLES
    phase,          \* "launch": before lib.rs launch() has mined the genesis
                    \* block; "serving": handling requests; "poisoned": a
                    \* handler panicked holding the engine's RwLock, every
                    \* later lock().unwrap() panics; "hung": a handler
                    \* spins on DB_IO_LOCKED holding the write lock
    debug_build,    \* TRUE: overflow checks and debug_assert! are compiled in
    db,             \* the persisted chain: the rows of table `block` by id
    prep,           \* preparing_block_state of the engine in the RwLock
    IS_MINING,      \* blockchain.rs:11
    DB_IO_LOCKED,   \* blockchain.rs:13
    temp,           \* the rows of the temporary store at TEMP_DB_PATH
    now,            \* the node's clock (helpers::get_timestamp)
    pool,           \* what clients and peers send in this run
    last,           \* the last handler that ran and what its calls returned
    lock,           \* the RwLock's writer: 0 or the thread holding it
    threads,        \* handler threads: position, engine copy, block in hand
    net             \* one connection: the bytes on it and what Package::send
                    \* and Package::receive_bytes did with them

vars == <<phase, debug_build, db, prep, IS_MINING, DB_IO_LOCKED, temp, now,
          pool, last, lock, threads, net>>

Min(S) == CHOOSE x \in S : \A y \in S : x <= y
Max(S) == CHOOSE x \in S : \A y \in S : x >= y

\* PreparingBlockState::new / clear
PreparingBlockState_new == [transactions |-> <<>>, balance_state |-> EmptyBalanceState]

\* PreparingBlockState::filled
PreparingBlockState_filled(p) ==
    Len(p.transactions) >= USER_TRANSACTIONS_PER_BLOCK

(***************************************************************************)
(* crates/blockchain/src/blockchain.rs: reads of the chain.                *)
(***************************************************************************)
\* Blockchain::get_last_block_hash (the chain is not empty)
get_last_block_hash(chain) == Block_compute_hash(chain[Len(chain)])

\* Blockchain::get_blocks: every block, or with before_block = Some(b) the
\* blocks up to and including the first one whose hash is b.previous_hash.
get_blocks(chain, before_block) ==
    IF before_block = None THEN chain
    ELSE LET b == before_block[1]
             hits == {i \in 1..Len(chain) :
                        /\ b.previous_hash /= None
                        /\ b.previous_hash[1] = Block_compute_hash(chain[i])}
         IN  IF hits = {} THEN chain ELSE SubSeq(chain, 1, Min(hits))

\* Blockchain::get_block_before_block: Some(block) or None
get_block_before_block(chain, before_block) ==
    LET hits == {i \in 1..Len(chain) :
                    /\ before_block.previous_hash /= None
                    /\ before_block.previous_hash[1] = Block_compute_hash(chain[i])}
    IN  IF hits = {} THEN None ELSE Some(chain[Min(hits)])

\* Fault: get_balance_from_database that reads the oldest entry.
get_balance_from_database_oldest(chain, address, before_block) ==
    Bind(get_blocks(chain, before_block), LAMBDA blocks :
    Bind({i \in 1..Len(blocks) : address \in DOMAIN blocks[i].balance_state}, LAMBDA has :
        IF has = {} THEN 0 ELSE blocks[Min(has)].balance_state[address]))

\* Blockchain::get_balance_from_database: the entry of the latest block
\* that has one
get_balance_from_database(chain, address, before_block) ==
    Bind(get_blocks(chain, before_block), LAMBDA blocks :
    Bind({i \in 1..Len(blocks) : address \in DOMAIN blocks[i].balance_state}, LAMBDA has :
        IF has = {} THEN 0 ELSE blocks[Max(has)].balance_state[address]))

\* Blockchain::get_balance
get_balance(p, chain, address) ==
    IF address \in DOMAIN p.balance_state
    THEN p.balance_state[address]
    ELSE get_balance_from_database(chain, address, None)

(***************************************************************************)
(* Transaction::validate_integrity and its last step.                      *)
(***************************************************************************)
\* Fault: validate_previous_block_hash that accepts any hash.
Transaction_validate_previous_block_hash_any(t, chain) ==
    "Ok"

\* Transaction::validate_previous_block_hash
Transaction_validate_previous_block_hash(t, chain) ==
    IF Len(chain) = 0 THEN "GetLastBlockHashError"
    ELSE IF t.previous_block_hash /= get_last_block_hash(chain)
         THEN "TransactionPreviousHashMismatch"
         ELSE "Ok"

\* Transaction::validate_integrity
Transaction_validate_integrity(t, chain) ==
    AndThen(Transaction_validate_recipient(t),
    AndThen(Transaction_validate_sender_signature(t),
            Transaction_validate_previous_block_hash(t, chain)))

(***************************************************************************)
(* Blockchain::add_transaction and the balance helpers.  Each returns the  *)
(* new preparing state and the result.                                     *)
(***************************************************************************)
\* Blockchain::remove_from_balance
remove_from_balance(p, chain, address, amount) ==
    Bind(get_balance(p, chain, address), LAMBDA balance :
        IF amount > balance
        THEN [prep |-> p, result |-> "NotEnoughMoney"]
        ELSE [prep |-> [p EXCEPT !.balance_state =
                            BalanceInsert(@, address, balance - amount)],
              result |-> "Ok"])

\* Blockchain::add_to_balance: `balance + amount` is unchecked
add_to_balance(p, chain, address, amount) ==
    Bind(get_balance(p, chain, address), LAMBDA balance :
        IF balance + amount >= U64_RANGE /\ debug_build
        THEN [prep |-> p, result |-> "Panic"]
        ELSE [prep |-> [p EXCEPT !.balance_state =
                            BalanceInsert(@, address, (balance + amount) % U64_RANGE)],
              result |-> "Ok"])

\* Fault: a push that puts the new element first.
ArrayVec_push_front(v, x) == <<x>> \o v

\* ArrayVec::push on a vector that is not full (blockchain.rs:348)
ArrayVec_push(v, x) == Append(v, x)

\* Fault: a tail of add_transaction that credits the recipient before it
\* debits the sender.
add_transaction_apply_credit_first(p, chain, t) ==
    Bind(add_to_balance(p, chain, t.recipient, t.amount), LAMBDA r1 :
    IF r1.result /= "Ok" THEN r1
    ELSE
    Bind(remove_from_balance(r1.prep, chain, t.sender,
            (t.amount + t.amount_to_storage) % U64_RANGE), LAMBDA r2 :
    IF r2.result /= "Ok" THEN r2
    ELSE [prep |-> [r2.prep EXCEPT !.transactions = ArrayVec_push(@, t)],
          result |-> "Ok"]))

\* The tail of add_transaction (blockchain.rs:326-349): balances, then push.
\* sender_costs is an unchecked sum.
add_transaction_apply(p, chain, t) ==
    IF t.amount + t.amount_to_storage >= U64_RANGE /\ debug_build
    THEN [prep |-> p, result |-> "Panic"]
    ELSE
    Bind(remove_from_balance(p, chain, t.sender,
            (t.amount + t.amount_to_storage) % U64_RANGE), LAMBDA r1 :
    IF r1.result /= "Ok" THEN [prep |-> p, result |-> r1.result]
    ELSE
    Bind(add_to_balance(r1.prep, chain, t.recipient, t.amount), LAMBDA r2 :
    IF r2.result /= "Ok" THEN r2
    ELSE
    Bind(IF t.amount_to_storage /= 0
         THEN add_to_balance(r2.prep, chain, STORAGE_ADDRESS, t.amount_to_storage)
         ELSE r2, LAMBDA r3 :
    IF r3.result /= "Ok" THEN r3
    \* ArrayVec::push panics when the vector is full
    ELSE IF Len(r3.prep.transactions) >= TRANSACTIONS_PER_BLOCK
         THEN [prep |-> r3.prep, result |-> "Panic"]
         ELSE [prep |-> [r3.prep EXCEPT !.transactions = ArrayVec_push(@, t)],
               result |-> "Ok"])))

\* Blockchain::add_transaction
add_transaction(p, chain, t) ==
    IF debug_build /\ Len(chain) = 0 THEN [prep |-> p, result |-> "Panic"]
    ELSE IF /\ t.sender /= STORAGE_ADDRESS
            /\ Len(p.transactions) = USER_TRANSACTIONS_PER_BLOCK
         THEN [prep |-> p, result |-> "LimitReached"]
         ELSE Bind(Transaction_validate_integrity(t, chain), LAMBDA v :
                IF v /= "Ok"
                THEN [prep |-> p, result |-> v]
                ELSE add_transaction_apply(p, chain, t))

\* Blockchain::make_storage_transaction
make_storage_transaction(p, chain, recipient, amount, random_string) ==
    IF Len(chain) = 0 THEN [prep |-> p, result |-> "GetLastBlockHashError"]
    ELSE add_transaction(p, chain,
            Transaction_new(STORAGE_ADDRESS, recipient, amount,
                            get_last_block_hash(chain), random_string))


(***************************************************************************)
(* crates/blockchain/src/block.rs: integrity of a block against a chain.   *)
(***************************************************************************)
\* Block::validate_previous_hash: an absent previous_hash is not compared
Block_validate_previous_hash(b, chain) ==
    IF Len(chain) = 0 THEN "GetLastBlockHashError"
    ELSE IF b.previous_hash /= None /\ b.previous_hash[1] /= get_last_block_hash(chain)
         THEN "PreviousHashMismatch"
         ELSE "Ok"

\* The loop of validate_balance_state (block.rs:294-303) from transaction i
\* on: the sums are unchecked u64 additions.
RECURSIVE SpentReceived(_, _, _, _)
SpentReceived(txs, address, i, acc) ==
    IF i > Len(txs) THEN acc
    ELSE LET t == txs[i]
             costs == t.amount + t.amount_to_storage
             next ==
                IF address = t.sender
                THEN [acc EXCEPT !.spent = (@ + (costs % U64_RANGE)) % U64_RANGE,
                                 !.overflow = @ \/ costs >= U64_RANGE
                                    \/ acc.spent + (costs % U64_RANGE) >= U64_RANGE]
                ELSE IF address = t.recipient
                THEN [acc EXCEPT !.received = (@ + t.amount) % U64_RANGE,
                                 !.overflow = @ \/ acc.received + t.amount >= U64_RANGE]
                ELSE IF address = STORAGE_ADDRESS
                THEN [acc EXCEPT !.received = (@ + t.amount_to_storage) % U64_RANGE,
                                 !.overflow = @ \/ acc.received + t.amount_to_storage >= U64_RANGE]
                ELSE acc
         IN  SpentReceived(txs, address, i + 1, next)

\* Block::validate_balance_state
Block_validate_balance_state(b, address, chain) ==
    IF address \in DOMAIN b.balance_state
    THEN Bind(get_balance_from_database(chain, address, Some(b)), LAMBDA balance :
         Bind(SpentReceived(b.transactions, address, 1,
                            [spent |-> 0, received |-> 0, overflow |-> FALSE]), LAMBDA sr :
            IF sr.overflow /\ debug_build THEN "Panic"
            ELSE IF balance + sr.received >= U64_RANGE THEN "AddOverflow"
            ELSE IF balance + sr.received - sr.spent < 0 THEN "SubOverflow"
            ELSE IF balance + sr.received - sr.spent = b.balance_state[address]
                 THEN "Ok"
                 ELSE "BalancesNotEquals"))
    ELSE "NoBalanceInState"

\* The reward check of validate_transactions (block.rs:245-255)
Block_validate_reward(b, t) ==
    IF t.sender = STORAGE_ADDRESS /\ t.recipient /= b.miner
    THEN "RewardedNotMiner"
    ELSE IF t.sender = STORAGE_ADDRESS /\ t.amount /= MINING_REWARD
    THEN "InvalidReward"
    ELSE "Ok"

\* The previous-hash check of validate_transactions (block.rs:257-266)
Block_validate_transaction_link(b, t) ==
    IF ~(b.previous_hash /= None /\ b.previous_hash[1] = t.previous_block_hash)
    THEN "PreviousHashesNotEquals"
    ELSE "Ok"

\* The body of the loop of validate_transactions (block.rs:242-276)
Block_validate_transaction(b, t, chain) ==
    AndThen(Transaction_validate_integrity(t, chain),
    AndThen(Block_validate_reward(b, t),
    AndThen(Block_validate_transaction_link(b, t),
    AndThen(Block_validate_balance_state(b, t.sender, chain),
            Block_validate_balance_state(b, t.recipient, chain)))))

\* The loop of validate_transactions (block.rs:242-276) from transaction i on
RECURSIVE Block_validate_each_transaction(_, _, _)
Block_validate_each_transaction(b, chain, i) ==
    IF i > Len(b.transactions) THEN "Ok"
    ELSE AndThen(Block_validate_transaction(b, b.transactions[i], chain),
                 Block_validate_each_transaction(b, chain, i + 1))

\* Fault: validate_transactions without the count checks.
Block_validate_transactions_no_counts(b, chain) ==
    Block_validate_each_transaction(b, chain, 1)

\* Block::validate_transactions
Block_validate_transactions(b, chain) ==
    IF Len(b.transactions) /= USER_TRANSACTIONS_PER_BLOCK + 1 THEN "InvalidUserCount"
    ELSE IF Cardinality({i \in 1..Len(b.transactions) :
                b.transactions[i].sender = STORAGE_ADDRESS}) /= 1
    THEN "InvalidStorageCount"
    ELSE IF \E i, j \in 1..Len(b.transactions) :
                i < j /\ b.transactions[i].random_string = b.transactions[j].random_string
    THEN "RandomStringNotUnique"
    ELSE Block_validate_each_transaction(b, chain, 1)

\* Block::validate_created_at; clock is what get_timestamp returns
Block_validate_created_at(b, chain, clock) ==
    IF clock - b.created_at < 0 THEN "InFuture"
    ELSE Bind(get_block_before_block(chain, b), LAMBDA previous :
            IF previous = None THEN "Panic"
            ELSE IF b.created_at - previous[1].created_at <= 0
                 THEN "PreviousInFuture"
                 ELSE "Ok")

\* Block::validate_integrity: the first check that fails
Block_validate_integrity(b, chain, clock) ==
    AndThen(Block_validate_previous_hash(b, chain),
    AndThen(Block_validate_proof_of_work(b),
    AndThen(Block_validate_is_signed(b),
    AndThen(Block_validate_miner_signature(b),
    AndThen(Block_validate_transactions(b, chain),
            Block_validate_created_at(b, chain, clock))))))

\* Fault: a loop that increments the nonce before it tests it.
RECURSIVE generate_proof_of_work_loop_skip(_, _)
generate_proof_of_work_loop_skip(b, tested) ==
    IF Block_validate_proof_of_work([b EXCEPT !.nonce = @ + 1]) = "Ok"
    THEN [block |-> [b EXCEPT !.nonce = @ + 1], tested |-> tested + 1]
    ELSE generate_proof_of_work_loop_skip([b EXCEPT !.nonce = @ + 1], tested + 1)

\* The loop of Block::generate_proof_of_work (block.rs:126-136) with
\* IS_MINING left true: validate_proof_of_work is tried on the block as it
\* is, and the nonce incremented after every failure.  `tested` counts the
\* calls of validate_proof_of_work.
RECURSIVE generate_proof_of_work_loop(_, _)
generate_proof_of_work_loop(b, tested) ==
    IF Block_validate_proof_of_work(b) = "Ok"
    THEN [block |-> b, tested |-> tested + 1]
    ELSE generate_proof_of_work_loop([b EXCEPT !.nonce = @ + 1], tested + 1)

\* Block::generate_proof_of_work returning Ok: the block it leaves.
generate_proof_of_work(b) == generate_proof_of_work_loop(b, 0).block

(***************************************************************************)
(* crates/blockchain/src/blockchain.rs: add_block, mining, rebuild.        *)
(***************************************************************************)
\* Blockchain::add_block: what it does to the store.  (It first clears the
\* preparing state and switches IS_MINING off, whatever the block.)
add_block(chain, block, is_genesis, clock) ==
    IF is_genesis
    THEN IF debug_build /\ Len(chain) /= 0
         THEN [db |-> chain, result |-> "Panic"]
         ELSE [db |-> Append(chain, block), result |-> "Ok"]
    ELSE Bind(Block_validate_integrity(block, chain, clock), LAMBDA v :
            IF v /= "Ok"
            THEN [db |-> chain, result |-> v]
            ELSE [db |-> Append(chain, block), result |-> "Ok"])

\* Blockchain::mine_genesis_block up to the call of add_block
genesis_block(miner, clock) ==
    Block_sign(
        generate_proof_of_work(
            Block_new(miner, None, <<>>,
                BalanceInsert(BalanceInsert(EmptyBalanceState, miner, GENESIS_BLOCK_REWARD),
                              STORAGE_ADDRESS, STORAGE_START_BALANCE),
                clock)),
        miner)

\* Blockchain::mine_block up to Block::new (blockchain.rs:196-214): the
\* self-reward is admitted, the preparing state is taken.
mine_block_prepare(p, chain, miner, clock, random_string) ==
    Bind(make_storage_transaction(p, chain, miner, MINING_REWARD, random_string), LAMBDA r :
        IF r.result /= "Ok"
        THEN [prep |-> r.prep, result |-> r.result, block |-> None]
        ELSE [prep |-> PreparingBlockState_new, result |-> "Ok",
              block |-> Some(Block_new(miner, Some(get_last_block_hash(chain)),
                                       r.prep.transactions, r.prep.balance_state,
                                       clock))])

\* Blockchain::mine_block from the proof of work on (blockchain.rs:215-230),
\* not interrupted
mine_block_finish(chain, base, miner, clock) ==
    Bind(Block_sign(generate_proof_of_work(base), miner), LAMBDA block :
    Bind(add_block(chain, block, FALSE, clock), LAMBDA a :
        [prep |-> PreparingBlockState_new, db |-> a.db, result |-> a.result,
         block |-> Some(block)]))

\* Blockchain::mine_block, not interrupted
mine_block(p, chain, miner, clock, random_string) ==
    IF debug_build /\ (Len(chain) = 0 \/ Len(p.transactions) = 0)
    THEN [prep |-> p, db |-> chain, result |-> "Panic", block |-> None]
    ELSE Bind(mine_block_prepare(p, chain, miner, clock, random_string), LAMBDA m :
            IF m.result /= "Ok"
            THEN [prep |-> m.prep, db |-> chain, result |-> m.result, block |-> None]
            ELSE mine_block_finish(chain, m.block[1], miner, clock))

\* The loop of Blockchain::from_str (blockchain.rs:84-90) from block i on,
\* into the temporary store
RECURSIVE from_str_replay(_, _, _, _)
from_str_replay(blocks, i, tmp, clock) ==
    IF i > Len(blocks) THEN [db |-> tmp, result |-> "Ok"]
    ELSE Bind(add_block(tmp, blocks[i], i = 1, clock), LAMBDA a :
            IF a.result /= "Ok" THEN [db |-> tmp, result |-> a.result]
            ELSE from_str_replay(blocks, i + 1, a.db, clock))


(***************************************************************************)
(* Inputs.  What arrives from the network is deserialized JSON: every      *)
(* field of a transaction or a block is whatever the sender wrote.         *)
(***************************************************************************)
\* The random string of a transaction the engine creates itself.
EngineRandom == 0

Template(sender, recipient, amount, amount_to_storage, signer, random_string) ==
    [sender |-> sender, recipient |-> recipient, amount |-> amount,
     amount_to_storage |-> amount_to_storage, signer |-> signer,
     random_string |-> random_string]

\* What clients send in one run: a pair of requests, before
\* previous_block_hash is filled in.  signer "nobody": unsigned.
Pools ==
    { <<Template(MINER, ALICE, 5, 0, MINER, 1), Template(MINER, ALICE, 15, 1, MINER, 2)>>,
      <<Template(MINER, ALICE, 9, 1, MINER, 1), Template(MINER, ALICE, 15, 0, MINER, 2)>>,
      <<Template(MINER, MINER, 5, 0, MINER, 1), Template(MINER, ALICE, 10, 1, MINER, 2)>>,
      <<Template(STORAGE_ADDRESS, ALICE, 5, 0, "nobody", 1), Template(MINER, ALICE, 9, 0, MINER, 2)>>,
      <<Template(MINER, STORAGE_ADDRESS, 5, 0, MINER, 1), Template(MINER, ALICE, 5, 0, "nobody", 2)>>,
      <<Template(MINER, ALICE, U64_RANGE - 1, 2, MINER, 1), Template(MINER, PEER, 5, 0, MINER, 2)>>,
      <<Template(MINER, ALICE, 5, 0, ALICE, 1), Template(MINER, ALICE, 15, 1, MINER, 2)>>,
      <<Template(MINER, ALICE, 15, 1, MINER, 1), Template(ALICE, PEER, 5, 0, ALICE, 2)>>,
      <<Template(MINER, ALICE, 101, 1, MINER, 1), Template(MINER, ALICE, 5, 0, MINER, 1)>> }

\* The transaction a template stands for (transaction JSON, handle.rs:137-139)
Instantiate(tm, previous_block_hash) ==
    LET t == [Transaction_new(tm.sender, tm.recipient, tm.amount,
                              previous_block_hash, tm.random_string)
                EXCEPT !.amount_to_storage = tm.amount_to_storage]
    IN  IF tm.signer = "nobody" THEN t ELSE Transaction_sign(t, tm.signer)

\* Hashes a client may name as previous_block_hash: the hash of any block
\* of the chain (the tip, or an older one it fetched earlier).
KnownHashes(chain) == {Block_compute_hash(chain[i]) : i \in 1..Len(chain)}

TxInputs(chain, templates) ==
    {Instantiate(templates[i], h) : i \in 1..Len(templates), h \in KnownHashes(chain)}

(***************************************************************************)
(* Blocks and chains a peer may send.  A peer builds on a chain it holds,  *)
(* writes the balances the receiving validation expects, mines and signs;  *)
(* `tamper` names the one thing it does differently.                       *)
(***************************************************************************)
BlockTampers ==
    {"honest", "bad_pow", "unsigned", "wrong_signer", "no_reward", "short",
     "two_rewards", "reward_other", "reward_big", "dup_random", "no_prev",
     "extra_balance", "wrong_balance", "missing_balance", "future", "old"}

\* What the last block of a served chain may have wrong.
ChainTampers == {"honest", "bad_pow"}

\* A run: what clients send and what the peers' blocks may have wrong.  The
\* peers of the first pool try every tamper, the others relay the clients'
\* transactions as they are.
Runs ==
    {[templates |-> tms,
      tampers |-> IF tms[1].amount = 5 /\ tms[2].amount = 15 /\ tms[1].signer = MINER
                  THEN BlockTampers ELSE {"honest"}] : tms \in Pools}

\* The balance validate_balance_state expects for address a after txs.
ExpectedBalance(chain, txs, a) ==
    Bind(SpentReceived(txs, a, 1, [spent |-> 0, received |-> 0, overflow |-> FALSE]),
         LAMBDA sr :
    Bind(get_balance_from_database(chain, a, None) + sr.received - sr.spent,
         LAMBDA v : IF v < 0 THEN 0 ELSE v % U64_RANGE))

\* The balances validate_balance_state expects for the parties of txs.
ExpectedBalances(chain, txs) ==
    [a \in {txs[i].sender : i \in 1..Len(txs)} \cup {txs[i].recipient : i \in 1..Len(txs)}
        |-> ExpectedBalance(chain, txs, a)]

PeerTransactions(t1, t2, reward, tamper) ==
    CASE tamper = "no_reward" -> <<t1, t2, t1>>
      [] tamper = "short" -> <<t1, reward>>
      [] tamper = "two_rewards" -> <<t1, reward, reward>>
      [] OTHER -> <<t1, t2, reward>>

PeerBalances(expected, t1, tamper) ==
    CASE tamper = "extra_balance" -> BalanceInsert(expected, MALLORY, 77)
      [] tamper = "wrong_balance" ->
            BalanceInsert(expected, t1.recipient, (expected[t1.recipient] + 1) % U64_RANGE)
      [] tamper = "missing_balance" ->
            [a \in (DOMAIN expected) \ {t1.recipient} |-> expected[a]]
      [] OTHER -> expected

PeerSeal(mined, tamper) ==
    CASE tamper = "unsigned" -> mined
      [] tamper = "wrong_signer" -> Block_sign(mined, ALICE)
      [] tamper = "bad_pow" -> Block_sign([mined EXCEPT !.nonce = @ + 1], PEER)
      [] OTHER -> Block_sign(mined, PEER)

\* The block a peer builds on `chain` (not empty) from t1 and t2 at `clock`.
PeerBlock(chain, t1, t2, clock, tamper) ==
    Bind(get_last_block_hash(chain), LAMBDA tip :
    Bind(PeerTransactions(t1, t2,
            Transaction_new(STORAGE_ADDRESS,
                IF tamper = "reward_other" THEN ALICE ELSE PEER,
                IF tamper = "reward_big" THEN MINING_REWARD + 1 ELSE MINING_REWARD,
                tip, EngineRandom),
            tamper), LAMBDA txs :
        PeerSeal(generate_proof_of_work(
                    Block_new(PEER,
                        IF tamper = "no_prev" THEN None ELSE Some(tip),
                        txs,
                        PeerBalances(ExpectedBalances(chain, txs), t1, tamper),
                        CASE tamper = "future" -> clock + 1
                          [] tamper = "old" -> chain[Len(chain)].created_at
                          [] OTHER -> clock)),
                 tamper)))

\* Blocks a peer may have built on top of `chain` (not empty).
PeerBlocks(chain, templates, clock, tampers) ==
    Bind(Instantiate(templates[1], get_last_block_hash(chain)), LAMBDA t1 :
    Bind(Instantiate(templates[2], get_last_block_hash(chain)), LAMBDA t2 :
        {PeerBlock(chain, t1,
                   IF tamper = "dup_random"
                   THEN Transaction_sign([t2 EXCEPT !.random_string = t1.random_string],
                                         templates[2].signer)
                   ELSE t2,
                   clock, tamper) : tamper \in tampers}))

\* The genesis block of a peer's own chain.
PeerGenesis(tamper) ==
    IF tamper = "bad_pow"
    THEN Bind(genesis_block(PEER, 0), LAMBDA g : Block_sign([g EXCEPT !.nonce = @ + 1], PEER))
    ELSE genesis_block(PEER, 0)

\* Blocks a peer that has not seen the last block may have built.
StaleBlocks(chain, templates, clock) ==
    IF Len(chain) < 2 THEN {}
    ELSE PeerBlocks(SubSeq(chain, 1, Len(chain) - 1), templates, clock, {"honest"})

\* Block lists a peer may answer GetBlocks with: nothing, a genesis block
\* of its own, its own chain of two blocks, or our chain and one more block.
PeerChains(chain, templates, clock) ==
    {<<>>, <<PeerGenesis("bad_pow")>>}
    \cup {Append(<<PeerGenesis("honest")>>, b) :
            b \in PeerBlocks(<<PeerGenesis("honest")>>, templates, clock, ChainTampers)}
    \cup (IF Len(chain) = 0 THEN {}
          ELSE {Append(chain, b) : b \in PeerBlocks(chain, templates, clock, {"honest"})})

(***************************************************************************)
(* The node, one request at a time: each action is one handler of          *)
(* crates/node/src/handle.rs run from its first statement to its return.   *)
(***************************************************************************)
\* Handler threads of the node (lib.rs:57 spawns one per connection).
NThreads == 2
Threads == 1..NThreads
\* add_block_ran records that Blockchain::add_block ran on the node after
\* the thread copied the engine and before its proof-of-work loop ended;
\* reply is the GetBlocks answer a recovering thread holds and i the index of
\* the next block from_str replays.
IdleThread ==
    [pc |-> "idle", clone |-> PreparingBlockState_new, block |-> None,
     add_block_ran |-> FALSE, reply |-> <<>>, i |-> 0]

Call(op, result, mined) == [op |-> op, result |-> result, mined |-> mined]

\* A connection nothing has been written to.
IdleNet == [max_size |-> 0, incoming |-> <<>>, read |-> 0, received |-> None,
            outgoing |-> <<>>, sent |-> None]

\* What the store at DB_PATH holds when the node starts: nothing, or the
\* chain of an earlier run.
StoredAtLaunch == {<<>>, <<genesis_block(MINER, 0)>>}

Init ==
    /\ phase = "launch"
    /\ debug_build \in BOOLEAN
    /\ db \in StoredAtLaunch
    /\ prep = PreparingBlockState_new
    /\ IS_MINING = FALSE
    /\ DB_IO_LOCKED = FALSE
    /\ temp = <<>>
    /\ net = IdleNet
    /\ now = 0
    /\ pool \in Runs
    /\ last = Call("load_or_create", "Ok", "NotRun")
    /\ lock = 0
    /\ threads = [h \in Threads |-> IdleThread]

\* A panic under the write guard poisons the RwLock.
PhaseAfter(result) == IF result = "Panic" THEN "poisoned" ELSE "serving"

\* Fault: is_empty that answers true for every chain.
Blockchain_is_empty_always(chain) == TRUE

\* Blockchain::is_empty
Blockchain_is_empty(chain) == Len(chain) = 0

\* Blockchain::mine_genesis_block; the debug_assert at blockchain.rs:246
\* is the one add_block repeats at 301.
mine_genesis_block(chain, miner, clock) ==
    add_block(chain, genesis_block(miner, clock), TRUE, clock)

\* lib.rs:30-36: the chain is loaded, and a genesis block mined if it is
\* empty.
launch(chain, clock) ==
    IF Blockchain_is_empty(chain)
    THEN Bind(mine_genesis_block(chain, MINER, clock), LAMBDA a :
            [db |-> a.db, op |-> "mine_genesis_block", result |-> a.result])
    ELSE [db |-> chain, op |-> "load_or_create", result |-> "Ok"]

\* lib.rs launch() up to the listener.
Launch ==
    /\ phase = "launch"
    /\ LET l == launch(db, now)
       IN  /\ db' = l.db
           /\ last' = Call(l.op, l.result, "NotRun")
           /\ phase' = PhaseAfter(l.result)
    /\ prep' = PreparingBlockState_new
    /\ IS_MINING' = FALSE
    /\ UNCHANGED <<debug_build, DB_IO_LOCKED, now, pool, lock, threads, temp, net>>

\* node helpers.rs mine_block with no other thread running: the engine is
\* copied, the copy mines, and only a copy that mined replaces the engine.
node_mine_block(p, chain, clock) ==
    Bind(mine_block(p, chain, MINER, clock, EngineRandom), LAMBDA r :
        [prep |-> IF r.result = "Ok" THEN r.prep ELSE p,
         db |-> r.db, result |-> r.result])

\* The packages handle.rs add_transaction sends to the client for a
\* decoded request: AddTransactionFail when Blockchain::add_transaction
\* returns Err (handle.rs:154-164), AddTransactionSuccess when it returns Ok
\* (173-178), nothing when it panics and the thread unwinds.
add_transaction_replies(result) ==
    IF result = "Ok" THEN <<"AddTransactionSuccess">>
    ELSE IF result = "Panic" THEN <<>>
    ELSE <<"AddTransactionFail">>

\* handle.rs add_transaction (handle.rs:153-185): the transaction is
\* admitted under the write lock, the reply is sent, and if the chain is
\* minable the block is mined.
handle_add_transaction(p, chain, t, clock) ==
    Bind(add_transaction(p, chain, t), LAMBDA r :
        IF r.result = "Ok" /\ PreparingBlockState_filled(r.prep)
        THEN Bind(node_mine_block(r.prep, chain, clock), LAMBDA m :
                [prep |-> m.prep, db |-> m.db, result |-> "Ok", mined |-> m.result,
                 replies |-> add_transaction_replies(r.result)])
        ELSE [prep |-> r.prep, db |-> chain, result |-> r.result, mined |-> "NotRun",
              replies |-> add_transaction_replies(r.result)])

AddTransaction ==
    /\ phase = "serving"
    /\ \E t \in TxInputs(db, pool.templates) :
          LET h == handle_add_transaction(prep, db, t, now)
          IN  /\ Len(h.db) <= MaxBlocks
              /\ prep' = h.prep
              /\ db' = h.db
              /\ last' = Call("add_transaction", h.result, h.mined)
              /\ phase' = PhaseAfter(h.result)
    /\ IS_MINING' = FALSE
    /\ UNCHANGED <<debug_build, DB_IO_LOCKED, now, pool, lock, threads, temp, net>>

\* The clock advances.
Tick ==
    /\ phase = "serving"
    /\ now < MaxTime
    /\ now' = now + 1
    /\ UNCHANGED <<phase, debug_build, db, prep, IS_MINING, DB_IO_LOCKED, pool,
                   last, lock, threads, temp, net>>

\* Blocks a peer announces in an AddBlock request.
AnnouncedBlocks(chain, run, clock) ==
    PeerBlocks(chain, run.templates, clock, run.tampers)
        \cup StaleBlocks(chain, run.templates, clock)

\* The block a peer that is one block ahead of us announces: it is built on
\* a block we do not hold.
AheadBlocks(chain, templates, clock) ==
    UNION {PeerBlocks(Append(chain, unseen), templates, clock, {"honest"}) :
            unseen \in PeerBlocks(chain, templates, clock, {"honest"})}

\* BlockAddInfo as deserialized from an AddBlock request (handle.rs:94-96):
\* a block and the length the sender states for its chain.
BlockAddInfos(chain, run, clock) ==
    {[block |-> b, blockchain_len |-> n] :
        b \in AnnouncedBlocks(chain, run, clock) \cup AheadBlocks(chain, run.templates, clock),
        n \in {Len(chain), Len(chain) + 1}}

\* serde's JSON of a transaction and of a block (the derives at
\* transaction.rs:9 and block.rs:16): an object with one key per field.
Transaction_to_json(t) ==
    [k \in {"sender", "recipient", "amount", "amount_to_storage",
            "previous_block_hash", "random_string", "sender_signature"} |-> t[k]]

Transaction_from_json(j) ==
    [sender |-> j["sender"], recipient |-> j["recipient"], amount |-> j["amount"],
     amount_to_storage |-> j["amount_to_storage"],
     previous_block_hash |-> j["previous_block_hash"],
     random_string |-> j["random_string"], sender_signature |-> j["sender_signature"]]

Block_to_json(b) ==
    [k \in {"miner", "previous_hash", "transactions", "balance_state", "nonce",
            "created_at", "miner_signature"} |->
        IF k = "transactions"
        THEN [i \in 1..Len(b.transactions) |-> Transaction_to_json(b.transactions[i])]
        ELSE b[k]]

Block_from_json(j) ==
    [miner |-> j["miner"], previous_hash |-> j["previous_hash"],
     transactions |-> [i \in 1..Len(j["transactions"]) |->
                          Transaction_from_json(j["transactions"][i])],
     balance_state |-> j["balance_state"], nonce |-> j["nonce"],
     created_at |-> j["created_at"], miner_signature |-> j["miner_signature"]]

\* Fault: to_string that serves the first block only.
Blockchain_to_string_first(chain) ==
    [i \in 1..Min({1, Len(chain)}) |-> Block_to_json(chain[i])]

\* Blockchain::to_string: the JSON list of every block
Blockchain_to_string(chain) == [i \in 1..Len(chain) |-> Block_to_json(chain[i])]

\* What a peer answers GetBlocks with (handle.rs get_blocks on its side).
GetBlocksReplies(chain, templates, clock) ==
    {Blockchain_to_string(blocks) : blocks \in PeerChains(chain, templates, clock)}

\* handle.rs:102
Lagging_or_level(blockchain_len, len) == blockchain_len >= len

Lagging(blockchain_len, len) == blockchain_len > len

\* handle.rs add_block up to the decision at handle.rs:99-114: the block is
\* added, or the request fails, or the chain is to be fetched from the sender.
handle_add_block(chain, info, clock) ==
    Bind(add_block(chain, info.block, FALSE, clock), LAMBDA a :
        [db |-> a.db, result |-> a.result,
         transfer |-> a.result \notin {"Ok", "Panic"}
                        /\ Lagging(info.blockchain_len, Len(chain))])

\* Fault: from_str that replays into the live store.
from_str_in_place(chain, locked, tmp, s, clock) ==
    IF locked
    THEN [db |-> chain, temp |-> tmp, DB_IO_LOCKED |-> TRUE, result |-> "Spinning"]
    ELSE Bind(from_str_replay([i \in 1..Len(s) |-> Block_from_json(s[i])], 1, <<>>, clock),
              LAMBDA r :
            [db |-> r.db, temp |-> <<>>, DB_IO_LOCKED |-> r.result /= "Ok",
             result |-> r.result])

\* Blockchain::from_str followed by load_or_create: what it leaves in the
\* live store, in the temporary store and in DB_IO_LOCKED, and its result.
\* "Spinning": compare_exchange_weak never succeeds.
from_str(chain, locked, tmp, s, clock) ==
    IF locked
    THEN [db |-> chain, temp |-> tmp, DB_IO_LOCKED |-> TRUE, result |-> "Spinning"]
    ELSE Bind(from_str_replay([i \in 1..Len(s) |-> Block_from_json(s[i])], 1, tmp, clock),
              LAMBDA r :
            IF r.result = "Ok"
            THEN \* rename, DB_IO_LOCKED.store(false), load_or_create
                 [db |-> r.db, temp |-> <<>>, DB_IO_LOCKED |-> FALSE, result |-> "Ok"]
            ELSE IF r.result = "Panic"
            THEN [db |-> chain, temp |-> r.db, DB_IO_LOCKED |-> TRUE, result |-> "Panic"]
            ELSE \* remove_file, return Err
                 [db |-> chain, temp |-> <<>>, DB_IO_LOCKED |-> TRUE,
                  result |-> r.result])

\* config.nodes(): the peers of the node, in the order of the configuration.
config_nodes == <<"N1", "N2">>

\* The addresses an AddBlock connection may come from: a configured peer
\* and an address that is not configured.
Senders == {"N1", "N3"}

\* Fault: every address counts as a configured peer.
Nodes_contains_any(nodes, sender) == TRUE

\* config.nodes().contains(&sender)
Nodes_contains(nodes, sender) == \E k \in 1..Len(nodes) : nodes[k] = sender

\* handle.rs add_block from its first statement: what it leaves in the
\* store, the preparing state and IS_MINING, its result, and whether the
\* chain is to be fetched from the sender.
handle_add_block_from(sender, p, mining, chain, info, clock) ==
    IF ~Nodes_contains(config_nodes, sender)
    THEN \* anyhow::ensure! (handle.rs:92)
         [db |-> chain, prep |-> p, IS_MINING |-> mining,
          result |-> "InvalidSender", transfer |-> FALSE]
    ELSE Bind(handle_add_block(chain, info, clock), LAMBDA h :
            [db |-> h.db, prep |-> PreparingBlockState_new, IS_MINING |-> FALSE,
             result |-> h.result, transfer |-> h.transfer])

\* The request bodies that matter for a sender: the body of a request from
\* an address that is not configured is never decoded.
RequestsFrom(sender, chain, run, clock) ==
    IF Nodes_contains(config_nodes, sender)
    THEN BlockAddInfos(chain, run, clock)
    ELSE {[block |-> None, blockchain_len |-> 0]}

\* handle.rs add_block, where the block is added or the request fails
\* (handle.rs:92-125).
AddBlock ==
    /\ phase = "serving"
    /\ Len(db) >= 1
    /\ Len(db) < MaxBlocks
    /\ \E sender \in Senders : \E info \in RequestsFrom(sender, db, pool, now) :
          LET h == handle_add_block_from(sender, prep, IS_MINING, db, info, now)
          IN  /\ ~h.transfer
              /\ db' = h.db
              /\ prep' = h.prep
              /\ IS_MINING' = h.IS_MINING
              /\ last' = Call("add_block", h.result, "NotRun")
              /\ phase' = PhaseAfter(h.result)
    /\ UNCHANGED <<debug_build, DB_IO_LOCKED, now, pool, lock, threads, temp, net>>

\* handle.rs add_block, where the block is rejected and the chain is
\* fetched from the sender (handle.rs:99-113): transfer_blockchain_from
\* receives the sender's blocks and Blockchain::from_str replays them
\* (helpers.rs:49-84, blockchain.rs:58-99).
LagRecovery ==
    /\ phase = "serving"
    /\ Len(db) >= 1
    /\ {info \in BlockAddInfos(db, pool, now) :
            handle_add_block(db, info, now).transfer} /= {}
    /\ \E s \in GetBlocksReplies(db, pool.templates, now) :
          /\ Len(s) <= MaxBlocks
          /\ LET r == from_str(db, DB_IO_LOCKED, temp, s, now)
             IN  /\ db' = r.db
                 /\ temp' = r.temp
                 /\ DB_IO_LOCKED' = r.DB_IO_LOCKED
                 /\ last' = Call("from_str", r.result, "NotRun")
                 /\ phase' = IF r.result = "Spinning" THEN "hung"
                             ELSE PhaseAfter(r.result)
    /\ prep' = PreparingBlockState_new
    /\ IS_MINING' = FALSE
    /\ UNCHANGED <<debug_build, now, pool, lock, threads, net>>

Next ==
    \/ Launch
    \/ AddTransaction
    \/ AddBlock
    \/ LagRecovery
    \/ Tick

Spec == Init /\ [][Next]_vars

\* The node with no peer sending it anything: clients keep sending requests
\* (every request is served by a thread of its own, lib.rs:57) and the clock
\* runs.
ClientsNext ==
    \/ Launch
    \/ AddTransaction
    \/ Tick

\* ENABLED <<AddTransaction>>_vars, computed from the handler: some request
\* of the run would change the node's state.
AddTransactionEnabled ==
    /\ phase = "serving"
    /\ \E t \in TxInputs(db, pool.templates) :
          Bind(handle_add_transaction(prep, db, t, now), LAMBDA h :
              /\ Len(h.db) <= MaxBlocks
              /\ <<h.prep, h.db, Call("add_transaction", h.result, h.mined),
                    PhaseAfter(h.result), FALSE>>
                    /= <<prep, db, last, phase, IS_MINING>>)

\* Weak fairness of every action; that of AddTransaction is written out
\* with AddTransactionEnabled.
SpecClients ==
    /\ Init
    /\ [][ClientsNext]_vars
    /\ WF_vars(Launch)
    /\ WF_vars(Tick)
    /\ (<>[]AddTransactionEnabled) => ([]<><<AddTransaction>>_vars)

(***************************************************************************)
(* The node with its handler threads interleaved.  A step is what a thread *)
(* does between two points where another thread can observe or change     *)
(* the shared state: the engine behind the RwLock, the rows of the store,  *)
(* and IS_MINING.  The store is shared by every copy of the engine         *)
(* (Blockchain derives Clone, db_pool is a handle).                        *)
(***************************************************************************)
\* What clients and peers send in the interleaved runs.
NodeRun ==
    [templates |-> <<Template(MINER, ALICE, 5, 0, MINER, 1),
                     Template(MINER, ALICE, 15, 1, MINER, 2)>>,
     tampers |-> {"honest"}]

\* The node after launch() has mined the genesis block, one tick later.
InitNode ==
    /\ phase = "serving"
    /\ debug_build \in BOOLEAN
    /\ db = <<genesis_block(MINER, 0)>>
    /\ prep = PreparingBlockState_new
    /\ IS_MINING = FALSE
    /\ DB_IO_LOCKED = FALSE
    /\ temp = <<>>
    /\ net = IdleNet
    /\ now = 1
    /\ pool = NodeRun
    /\ last = Call("mine_genesis_block", "Ok", "NotRun")
    /\ lock = 0
    /\ threads = [h \in Threads |-> IdleThread]

\* The connections open in the interleaved runs: thread 1 serves a client,
\* thread 2 serves a peer node.
ClientThreads == {1}
PeerThreads == {2}

At(h, pc) == threads[h].pc = pc
\* The threads between helpers.rs:10 and the end of generate_proof_of_work.
InFlight(ts) == {h \in Threads : ts[h].pc \in {"assert", "prepare", "pow"}}
AddBlockRan(ts) ==
    [h \in Threads |-> IF h \in InFlight(ts)
                       THEN [ts[h] EXCEPT !.add_block_ran = TRUE] ELSE ts[h]]
Goto(h, pc) == [threads EXCEPT ![h].pc = pc]
Exit(h) == [threads EXCEPT ![h] = IdleThread]

\* handle.rs:154-164: Blockchain::add_transaction under the write lock.
TxAdmit(h) ==
    /\ phase = "serving"
    /\ At(h, "idle")
    /\ lock = 0
    /\ \E t \in TxInputs(db, pool.templates) :
          LET r == add_transaction(prep, db, t)
          IN  /\ prep' = r.prep
              /\ phase' = PhaseAfter(r.result)
              /\ threads' = IF r.result = "Ok" THEN Goto(h, "admitted") ELSE Exit(h)
    /\ UNCHANGED <<debug_build, db, IS_MINING, DB_IO_LOCKED, now, pool, last, lock,
                   temp, net>>

\* What Package::send returns to a handler: Ok, or Err when the client has
\* dropped the connection.
SendOutcomes == {"Ok", "Err"}

\* handle.rs:173-178: AddTransactionSuccess is sent; `?` returns from the
\* handler when the send fails.
SendSuccessReply(h) ==
    /\ At(h, "admitted")
    /\ \E sent \in SendOutcomes :
          threads' = IF sent = "Ok" THEN Goto(h, "replied") ELSE Exit(h)
    /\ UNCHANGED <<phase, debug_build, db, prep, IS_MINING, DB_IO_LOCKED, now,
                   pool, last, lock, temp, net>>

\* handle.rs:181: minable() under a read lock.
CheckMinable(h) ==
    /\ phase = "serving"
    /\ At(h, "replied")
    /\ lock = 0
    /\ threads' = IF PreparingBlockState_filled(prep) THEN Goto(h, "clone") ELSE Exit(h)
    /\ UNCHANGED <<phase, debug_build, db, prep, IS_MINING, DB_IO_LOCKED, now,
                   pool, last, lock, temp, net>>

\* helpers.rs:10: the engine is copied under a read lock.
CloneEngine(h) ==
    /\ phase = "serving"
    /\ At(h, "clone")
    /\ lock = 0
    /\ threads' = [threads EXCEPT ![h].pc = "assert", ![h].clone = prep]
    /\ UNCHANGED <<phase, debug_build, db, prep, IS_MINING, DB_IO_LOCKED, now,
                   pool, last, lock, temp, net>>

\* blockchain.rs:191-193: the entry assertions of mine_block on the copy; a
\* failed assertion ends the thread.
MineAssert(h) ==
    /\ At(h, "assert")
    /\ threads' =
          IF \/ debug_build /\ (Len(db) = 0 \/ Len(threads[h].clone.transactions) = 0)
             \/ IS_MINING
          THEN Exit(h)
          ELSE Goto(h, "prepare")
    /\ UNCHANGED <<phase, debug_build, db, prep, IS_MINING, DB_IO_LOCKED, now,
                   pool, last, lock, temp, net>>

\* blockchain.rs:196-215: the self-reward, Block::new, IS_MINING := true.
MinePrepare(h) ==
    /\ At(h, "prepare")
    /\ LET m == mine_block_prepare(threads[h].clone, db, MINER, now, EngineRandom)
       IN  IF m.result /= "Ok"
           THEN /\ threads' = Exit(h)
                /\ UNCHANGED IS_MINING
           ELSE /\ threads' = [threads EXCEPT ![h].pc = "pow", ![h].clone = m.prep,
                                               ![h].block = m.block]
                /\ IS_MINING' = TRUE
    /\ UNCHANGED <<phase, debug_build, db, prep, DB_IO_LOCKED, now, pool, last, lock,
                   temp, net>>

\* block.rs:126-136: generate_proof_of_work.  Every round of the loop reads
\* IS_MINING first and the rounds touch nothing shared, so the loop either
\* sees the flag off in some round and stops, or runs to the first nonce
\* that meets the difficulty.
MinePow(h) ==
    /\ At(h, "pow")
    /\ threads' =
          IF ~IS_MINING THEN Exit(h)
          ELSE [threads EXCEPT ![h].pc = "sign",
                               ![h].block = Some(generate_proof_of_work(@[1]))]
    /\ UNCHANGED <<phase, debug_build, db, prep, IS_MINING, DB_IO_LOCKED, now,
                   pool, last, lock, temp, net>>

\* blockchain.rs:223-226: IS_MINING := false, Block::sign.
MineSign(h) ==
    /\ At(h, "sign")
    /\ IS_MINING' = FALSE
    /\ threads' = [threads EXCEPT ![h].pc = "validate",
                                  ![h].block = Some(Block_sign(@[1], MINER))]
    /\ UNCHANGED <<phase, debug_build, db, prep, DB_IO_LOCKED, now, pool, last, lock,
                   temp, net>>

\* blockchain.rs:292-304 on the copy: its preparing state is cleared,
\* IS_MINING switched off, validate_integrity reads the store.
MineValidate(h) ==
    /\ At(h, "validate")
    /\ IS_MINING' = FALSE
    /\ threads' =
          IF Block_validate_integrity(threads[h].block[1], db, now) = "Ok"
          THEN [threads EXCEPT ![h].pc = "insert", ![h].clone = PreparingBlockState_new]
          ELSE Exit(h)
    /\ UNCHANGED <<phase, debug_build, db, prep, DB_IO_LOCKED, now, pool, last, lock,
                   temp, net>>

\* blockchain.rs:305 on the copy: add_block_to_database, no lock held.
MineInsert(h) ==
    /\ At(h, "insert")
    /\ Len(db) < MaxBlocks
    /\ db' = Append(db, threads[h].block[1])
    /\ threads' = Goto(h, "install")
    /\ UNCHANGED <<phase, debug_build, prep, IS_MINING, DB_IO_LOCKED, now, pool,
                   last, lock, temp, net>>

\* What happens when a peer is contacted: the package is written, or
\* TcpStream::connect fails, or Package::send fails.
PeerOutcomes == {"Ok", "ConnectErr", "SendErr"}

\* BlockAddInfo::new
BlockAddInfo_new(block, len) == [block |-> block, blockchain_len |-> len]

\* Fault: a loop that returns at the first peer it cannot reach.
RECURSIVE broadcast_or_return(_, _, _, _)
broadcast_or_return(info, nodes, k, outcome) ==
    IF k > Len(nodes) THEN <<>>
    ELSE IF outcome[nodes[k]] /= "Ok"
    THEN <<[node |-> nodes[k], info |-> info, delivered |-> FALSE]>>
    ELSE <<[node |-> nodes[k], info |-> info, delivered |-> TRUE]>>
            \o broadcast_or_return(info, nodes, k + 1, outcome)

\* helpers.rs:40-43 from peer k on: the peers that were tried, with what
\* was sent to them; connect_or_continue! and send_package_or_continue!
\* go on to the next peer on failure.
RECURSIVE broadcast(_, _, _, _)
broadcast(info, nodes, k, outcome) ==
    IF k > Len(nodes) THEN <<>>
    ELSE <<[node |-> nodes[k], info |-> info,
            delivered |-> outcome[nodes[k]] = "Ok"]>>
            \o broadcast(info, nodes, k + 1, outcome)

\* helpers.rs:16-44: len() under a read lock, then the copy replaces the
\* engine under the write lock, then the block is sent to the peers.
MineInstall(h) ==
    /\ phase = "serving"
    /\ At(h, "install")
    /\ lock = 0
    /\ prep' = threads[h].clone
    /\ threads' = Exit(h)
    /\ UNCHANGED <<phase, debug_build, db, IS_MINING, DB_IO_LOCKED, now, pool,
                   last, lock, temp, net>>

\* handle.rs:97-99 and blockchain.rs:292-304: the write lock is taken, the
\* preparing state cleared, IS_MINING switched off, validate_integrity run.
\* The sender's blockchain_len is not greater than ours.
PeerValidate(h) ==
    /\ phase = "serving"
    /\ At(h, "idle")
    /\ lock = 0
    /\ Len(db) < MaxBlocks
    /\ prep' = PreparingBlockState_new
    /\ IS_MINING' = FALSE
    /\ \E b \in AnnouncedBlocks(db, pool, now) :
          LET v == Block_validate_integrity(b, db, now)
          IN  /\ phase' = PhaseAfter(v)
              /\ lock' = IF v = "Ok" THEN h ELSE 0
              /\ threads' = AddBlockRan(IF v = "Ok"
                                        THEN [threads EXCEPT ![h].pc = "peer_insert",
                                                             ![h].block = Some(b)]
                                        ELSE Exit(h))
    /\ UNCHANGED <<debug_build, db, DB_IO_LOCKED, now, pool, last, temp, net>>

\* blockchain.rs:305 and the end of handle.rs add_block: the row is
\* inserted, the write lock released.
PeerInsert(h) ==
    /\ At(h, "peer_insert")
    /\ db' = Append(db, threads[h].block[1])
    /\ lock' = 0
    /\ threads' = Exit(h)
    /\ UNCHANGED <<phase, debug_build, prep, IS_MINING, DB_IO_LOCKED, now, pool, last,
                   temp, net>>

NodeNext ==
    \/ \E h \in ClientThreads : TxAdmit(h)
    \/ \E h \in Threads : SendSuccessReply(h)
    \/ \E h \in Threads : CheckMinable(h)
    \/ \E h \in Threads : CloneEngine(h)
    \/ \E h \in Threads : MineAssert(h)
    \/ \E h \in Threads : MinePrepare(h)
    \/ \E h \in Threads : MinePow(h)
    \/ \E h \in Threads : MineSign(h)
    \/ \E h \in Threads : MineValidate(h)
    \/ \E h \in Threads : MineInsert(h)
    \/ \E h \in Threads : MineInstall(h)
    \/ \E h \in PeerThreads : PeerValidate(h)
    \/ \E h \in Threads : PeerInsert(h)
    \/ Tick

SpecNode == InitNode /\ [][NodeNext]_vars

\* The same steps when every connection may be a client's: lib.rs:57 spawns
\* a thread per accepted connection, whatever the request it carries.
MinersNext ==
    \/ \E h \in Threads : TxAdmit(h)
    \/ \E h \in Threads : SendSuccessReply(h)
    \/ \E h \in Threads : CheckMinable(h)
    \/ \E h \in Threads : CloneEngine(h)
    \/ \E h \in Threads : MineAssert(h)
    \/ \E h \in Threads : MinePrepare(h)
    \/ \E h \in Threads : MinePow(h)
    \/ \E h \in Threads : MineSign(h)
    \/ \E h \in Threads : MineValidate(h)
    \/ \E h \in Threads : MineInsert(h)
    \/ \E h \in Threads : MineInstall(h)
    \/ \E h \in PeerThreads : PeerValidate(h)
    \/ \E h \in Threads : PeerInsert(h)

SpecMiners == InitNode /\ [][MinersNext]_vars

(***************************************************************************)
(* Lag recovery, statement by statement, on every handler thread: the     *)
(* rejecting AddBlock handler, transfer_blockchain_from and the body of    *)
(* Blockchain::from_str.                                                   *)
(***************************************************************************)
\* Fault: a write lock that is granted while another thread holds it.
RwLock_write_ready_always(l) == TRUE

\* RwLock::write returns once no thread holds the lock.
RwLock_write_ready(l) == l = 0

\* handle.rs:97-113 and helpers.rs:54-69: under the write lock add_block
\* clears the preparing state and IS_MINING and rejects the block, the
\* sender states a greater length, the lock is dropped, and the sender's
\* answer to GetBlocks is received.
RebuildFetch(h) ==
    /\ phase = "serving"
    /\ At(h, "idle")
    /\ RwLock_write_ready(lock)
    /\ Len(db) >= 1
    /\ {info \in BlockAddInfos(db, pool, now) :
            handle_add_block(db, info, now).transfer} /= {}
    /\ \E s \in GetBlocksReplies(db, pool.templates, now) :
          /\ Len(s) <= MaxBlocks
          /\ threads' = [threads EXCEPT ![h].pc = "fetched", ![h].reply = s]
    /\ prep' = PreparingBlockState_new
    /\ IS_MINING' = FALSE
    /\ UNCHANGED <<phase, debug_build, db, DB_IO_LOCKED, now, pool, last, lock, temp, net>>

\* helpers.rs:71: blockchain.write().unwrap()
RebuildEnter(h) ==
    /\ phase = "serving"
    /\ At(h, "fetched")
    /\ RwLock_write_ready(lock)
    /\ lock' = h
    /\ threads' = Goto(h, "spin")
    /\ UNCHANGED <<phase, debug_build, db, prep, IS_MINING, DB_IO_LOCKED, now, pool,
                   last, temp, net>>

\* blockchain.rs:67-82: the compare_exchange_weak loop leaves only when it
\* swapped DB_IO_LOCKED from false to true; then the pool on TEMP_DB_PATH
\* is opened.
RebuildSpin(h) ==
    /\ At(h, "spin")
    /\ ~DB_IO_LOCKED
    /\ DB_IO_LOCKED' = TRUE
    /\ threads' = [threads EXCEPT ![h].pc = "replay", ![h].i = 1]
    /\ UNCHANGED <<phase, debug_build, db, prep, IS_MINING, now, pool, last, lock,
                   temp, net>>

\* blockchain.rs:84-90: one round of the loop.  A rejected block removes
\* the temporary file and returns, which drops the write lock.
RebuildReplay(h) ==
    /\ At(h, "replay")
    /\ threads[h].i <= Len(threads[h].reply)
    /\ LET a == add_block(temp, Block_from_json(threads[h].reply[threads[h].i]),
                          threads[h].i = 1, now)
       IN  IF a.result = "Ok"
           THEN /\ temp' = a.db
                /\ threads' = [threads EXCEPT ![h].i = @ + 1]
                /\ UNCHANGED <<phase, lock, last>>
           ELSE /\ temp' = IF a.result = "Panic" THEN temp ELSE <<>>
                /\ threads' = Exit(h)
                /\ phase' = PhaseAfter(a.result)
                /\ lock' = 0
                /\ last' = Call("from_str", a.result, "NotRun")
    /\ UNCHANGED <<debug_build, db, prep, IS_MINING, DB_IO_LOCKED, now, pool, net>>

\* blockchain.rs:92-97 and helpers.rs:74-83: rename, DB_IO_LOCKED := false,
\* load_or_create, IS_MINING := false, the engine is replaced, the lock
\* dropped.
RebuildSwap(h) ==
    /\ At(h, "replay")
    /\ threads[h].i > Len(threads[h].reply)
    /\ db' = temp
    /\ temp' = <<>>
    /\ DB_IO_LOCKED' = FALSE
    /\ prep' = PreparingBlockState_new
    /\ IS_MINING' = FALSE
    /\ lock' = 0
    /\ threads' = Exit(h)
    /\ last' = Call("from_str", "Ok", "NotRun")
    /\ UNCHANGED <<phase, debug_build, now, pool, net>>

RebuildNext ==
    \/ \E h \in Threads : RebuildFetch(h)
    \/ \E h \in Threads : RebuildEnter(h)
    \/ \E h \in Threads : RebuildSpin(h)
    \/ \E h \in Threads : RebuildReplay(h)
    \/ \E h \in Threads : RebuildSwap(h)
    \/ Tick

SpecRebuild == InitNode /\ [][RebuildNext]_vars

(***************************************************************************)
(* crates/common/src/package.rs: a package on a stream is the length of    *)
(* its JSON as 8 big-endian bytes, then the JSON.                          *)
(***************************************************************************)
\* The number of bytes of the length prefix (package.rs:104, u64).
HeaderLen == 8

\* The values of one byte (scaled), the longest JSON sent or waiting on a
\* stream, and the largest package_limits.max_size of a run.
ByteRange == 4
MaxPayload == 3
MaxMaxSize == 2

\* u64::to_be_bytes and usize::from_be_bytes
to_be_bytes(n) == [i \in 1..HeaderLen |-> (n \div ByteRange ^ (HeaderLen - i)) % ByteRange]

from_be_bytes(b) ==
    SumOver([i \in 1..HeaderLen |-> b[i] * ByteRange ^ (HeaderLen - i)], 1..HeaderLen)

\* The JSON of a package, n bytes long.
Json(n) == [i \in 1..n |-> 1]

\* Fault: receive_bytes that reads the payload before it compares the size.
Package_receive_bytes_late(max_size, stream, set_timeout) ==
    IF set_timeout = "Err"
    THEN [read |-> 0, result |-> "Timeout", bytes |-> <<>>]
    ELSE IF Len(stream) < HeaderLen
    THEN [read |-> Len(stream), result |-> "ReadLen", bytes |-> <<>>]
    ELSE Bind(from_be_bytes(SubSeq(stream, 1, HeaderLen)), LAMBDA size :
            IF Len(stream) - HeaderLen < size
            THEN [read |-> Len(stream), result |-> "ReadBytes", bytes |-> <<>>]
            ELSE IF size > max_size
            THEN [read |-> HeaderLen + size, result |-> "TooBig", bytes |-> <<>>]
            ELSE [read |-> HeaderLen + size, result |-> "Ok",
                  bytes |-> SubSeq(stream, HeaderLen + 1, HeaderLen + size)])

\* Package::receive_bytes on a stream holding `stream` and nothing more
\* before the timeout, `set_timeout` being the outcome of setting the read
\* timeout: the number of bytes taken from the stream, the result and the
\* bytes returned.
Package_receive_bytes(max_size, stream, set_timeout) ==
    IF set_timeout = "Err"
    THEN [read |-> 0, result |-> "Timeout", bytes |-> <<>>]
    ELSE IF Len(stream) < HeaderLen
    THEN [read |-> Len(stream), result |-> "ReadLen", bytes |-> <<>>]
    ELSE Bind(from_be_bytes(SubSeq(stream, 1, HeaderLen)), LAMBDA size :
            IF size > max_size
            THEN [read |-> HeaderLen, result |-> "TooBig", bytes |-> <<>>]
            ELSE IF Len(stream) - HeaderLen < size
            THEN [read |-> Len(stream), result |-> "ReadBytes", bytes |-> <<>>]
            ELSE [read |-> HeaderLen + size, result |-> "Ok",
                  bytes |-> SubSeq(stream, HeaderLen + 1, HeaderLen + size)])

\* Package::send of a package whose JSON is `bytes`, on a stream that takes
\* `accepted` bytes before its writes fail: what is written and the result.
Package_send(max_size, bytes, accepted) ==
    IF Len(bytes) > max_size
    THEN [written |-> <<>>, result |-> "TooBig"]
    ELSE Bind(to_be_bytes(Len(bytes)) \o bytes, LAMBDA all :
            [written |-> SubSeq(all, 1, Min({accepted, Len(all)})),
             result |-> IF accepted < HeaderLen THEN "WriteLen"
                        ELSE IF accepted < Len(all) THEN "WriteBytes"
                        ELSE "Ok"])

\* How many bytes the stream may take before it fails.
Accepted == {0, HeaderLen, HeaderLen + MaxPayload}

\* Whether the read timeout of the stream could be set.
TimeoutOutcomes == {"Ok", "Err"}

\* What the other end may have put on the stream: a length prefix cut
\* short, or a length prefix announcing L bytes followed by at most L bytes;
\* L may be as large as the prefix can express.
IncomingStreams ==
    {SubSeq(to_be_bytes(1), 1, HeaderLen - 1)}
    \cup {to_be_bytes(L) \o Json(k) :
            L \in 0..(MaxPayload + 1) \cup {ByteRange ^ HeaderLen - 1},
            k \in 0..MaxPayload}

InitPackage ==
    /\ phase = "serving"
    /\ debug_build = FALSE
    /\ db = <<genesis_block(MINER, 0)>>
    /\ prep = PreparingBlockState_new
    /\ IS_MINING = FALSE
    /\ DB_IO_LOCKED = FALSE
    /\ temp = <<>>
    /\ now = 1
    /\ pool = NodeRun
    /\ last = Call("mine_genesis_block", "Ok", "NotRun")
    /\ lock = 0
    /\ threads = [h \in Threads |-> IdleThread]
    /\ \E m \in 0..MaxMaxSize : net = [IdleNet EXCEPT !.max_size = m]

\* The other end writes to the connection.
PeerWrites ==
    /\ net.incoming = <<>>
    /\ \E stream \in IncomingStreams : net' = [net EXCEPT !.incoming = stream]
    /\ UNCHANGED <<phase, debug_build, db, prep, IS_MINING, DB_IO_LOCKED, temp, now,
                   pool, last, lock, threads>>

\* Package::receive_bytes
Receive ==
    /\ net.incoming /= <<>>
    /\ net.received = None
    /\ \E set_timeout \in TimeoutOutcomes :
          LET r == Package_receive_bytes(net.max_size, net.incoming, set_timeout)
          IN  net' = [net EXCEPT !.read = r.read,
                                 !.received = Some([result |-> r.result, bytes |-> r.bytes])]
    /\ UNCHANGED <<phase, debug_build, db, prep, IS_MINING, DB_IO_LOCKED, temp, now,
                   pool, last, lock, threads>>

\* Package::send
Send ==
    /\ net.sent = None
    /\ \E n \in 0..MaxPayload, accepted \in Accepted :
          LET r == Package_send(net.max_size, Json(n), accepted)
          IN  net' = [net EXCEPT !.outgoing = r.written,
                                 !.sent = Some([result |-> r.result, len |-> n])]
    /\ UNCHANGED <<phase, debug_build, db, prep, IS_MINING, DB_IO_LOCKED, temp, now,
                   pool, last, lock, threads>>

PackageNext == PeerWrites \/ Receive \/ Send

SpecPackage == InitPackage /\ [][PackageNext]_vars

(***************************************************************************)
(* Properties.                                                             *)
(***************************************************************************)
NonGenesis == 2..Len(db)

Linked(i) == db[i].previous_hash = Some(Block_compute_hash(db[i - 1]))

\* C1: under every interleaving of the node's handler threads, every stored
\* non-genesis block has previous_hash equal to the hash of the block stored
\* immediately before it, and no two stored blocks share a previous_hash.
C1_ChainLinkedUnderInterleaving ==
    /\ \A i \in NonGenesis : Linked(i)
    /\ \A i, j \in NonGenesis : i /= j => db[i].previous_hash /= db[j].previous_hash

\* C2: every stored block, block 0 of a chain installed by a rebuild
\* included, has a hash that begins with PROOF_OF_WORK_DIFFICULTY zeros.
C2_EveryStoredBlockHasProofOfWork ==
    \A i \in 1..Len(db) : Block_validate_proof_of_work(db[i]) = "Ok"

\* The chain as it was when block i was validated against it.
Before(i) == SubSeq(db, 1, i - 1)

Indexes(txs) == 1..Len(txs)

\* What address a receives and spends in txs, as integers.
Received(txs, a) ==
    SumOver([k \in Indexes(txs) |->
                (IF txs[k].recipient = a THEN txs[k].amount ELSE 0)
                + (IF a = STORAGE_ADDRESS THEN txs[k].amount_to_storage ELSE 0)],
            Indexes(txs))

Spent(txs, a) ==
    SumOver([k \in Indexes(txs) |->
                IF txs[k].sender = a
                THEN txs[k].amount + txs[k].amount_to_storage ELSE 0],
            Indexes(txs))

BalanceAsOf(chain, a) == get_balance_from_database(chain, a, None)

\* C3: in every accepted non-genesis block, the balance_state entry of every
\* address present is the balance as of the previous block, plus what the
\* address receives in the block (storage tax included for STORAGE), minus
\* the amount and amount_to_storage it spends, nothing leaving 0..2^64-1.
C3_BalanceStateOfEveryAddressPresent ==
    \A i \in NonGenesis : \A a \in DOMAIN db[i].balance_state :
        /\ BalanceAsOf(Before(i), a) + Received(db[i].transactions, a) < U64_RANGE
        /\ Spent(db[i].transactions, a)
              <= BalanceAsOf(Before(i), a) + Received(db[i].transactions, a)
        /\ db[i].balance_state[a]
              = BalanceAsOf(Before(i), a) + Received(db[i].transactions, a)
                  - Spent(db[i].transactions, a)

\* The chain holds only blocks this node's engine mined.
EngineBuilt == \A i \in 1..Len(db) : db[i].miner = MINER

TotalAsOf(chain) == SumOver([a \in Addresses |-> BalanceAsOf(chain, a)], Addresses)

\* C4: on a chain the engine built (mine_genesis_block, then rounds of
\* add_transaction and mine_block), the balances of all addresses sum to
\* the same total after every block as after the block before it.
C4_EngineChainConservesTotal ==
    EngineBuilt =>
        \A i \in NonGenesis : TotalAsOf(SubSeq(db, 1, i)) = TotalAsOf(Before(i))

\* The scenario of C5: on the node's own genesis block, the miner's signed
\* transfers of 5 and of 15 to ALICE were admitted and the block was mined.
C5_Mined5And15 ==
    /\ Len(db) = 2
    /\ EngineBuilt
    /\ last = Call("add_transaction", "Ok", "Ok")
    /\ pool.templates = <<Template(MINER, ALICE, 5, 0, MINER, 1),
                          Template(MINER, ALICE, 15, 1, MINER, 2)>>
    /\ {db[2].transactions[k].amount : k \in 1..2} = {5, 15}

\* C5 as stated: three transactions, recipient 20, miner 80, STORAGE 101.
C5_Storage101 ==
    C5_Mined5And15 =>
        /\ Len(db[2].transactions) = TRANSACTIONS_PER_BLOCK
        /\ get_balance(prep, db, ALICE) = 20
        /\ get_balance(prep, db, MINER) = 80
        /\ get_balance(prep, db, STORAGE_ADDRESS) = 101

\* C5 (amended): after the two transfers are admitted and the block is
\* mined, the appended block has exactly three transactions (two user, one
\* reward) and get_balance returns recipient 20, miner 80 and STORAGE 100:
\* the reward of 1 is paid out of STORAGE, which the tax of 1 refills.
C5_Storage100 ==
    C5_Mined5And15 =>
        /\ Len(db[2].transactions) = TRANSACTIONS_PER_BLOCK
        /\ Cardinality({k \in 1..3 : db[2].transactions[k].sender = STORAGE_ADDRESS}) = 1
        /\ get_balance(prep, db, ALICE) = 20
        /\ get_balance(prep, db, MINER) = 80
        /\ get_balance(prep, db, STORAGE_ADDRESS) = 100

\* The transactions of the accepted (non-genesis) blocks, and the pending ones.
AcceptedTransactions ==
    UNION {{db[i].transactions[k] : k \in Indexes(db[i].transactions)} : i \in NonGenesis}

PendingTransactions == {prep.transactions[k] : k \in Indexes(prep.transactions)}

SignedBySender(t) ==
    /\ t.sender_signature /= None
    /\ RecoveredAddress(t.sender_signature[1], Transaction_compute_hash(t)) = t.sender

\* What a request is answered with when only the signature can be wrong.
SignatureVerdict(t) ==
    IF t.sender_signature = None THEN "SenderSignatureIsEmpty"
    ELSE IF ~SignedBySender(t) THEN "SenderSignatureVerifyFailed"
    ELSE "Ok"

\* C6: every pending transaction and every transaction of an accepted block
\* whose sender is not STORAGE carries a signature over its hash that
\* recovers to its sender; a request without a signature is rejected as
\* signature-empty and one signed by another key as verify-failed.
C6_NonStorageTransactionsAreSigned ==
    /\ \A t \in PendingTransactions \cup AcceptedTransactions :
          t.sender /= STORAGE_ADDRESS => SignedBySender(t)
    /\ \A t \in TxInputs(db, pool.templates) :
          /\ t.sender /= STORAGE_ADDRESS
          /\ t.recipient /= STORAGE_ADDRESS
          /\ Len(prep.transactions) /= USER_TRANSACTIONS_PER_BLOCK
          /\ SignatureVerdict(t) /= "Ok"
          => add_transaction(prep, db, t).result = SignatureVerdict(t)

\* A request signed by another key was just rejected while a properly
\* signed transaction is pending.
C6_WronglySignedRejected ==
    /\ last = Call("add_transaction", "SenderSignatureVerifyFailed", "NotRun")
    /\ Len(prep.transactions) = 1

\* C7: every accepted non-genesis block holds exactly TRANSACTIONS_PER_BLOCK
\* transactions, exactly one of them sent by STORAGE, and that one pays
\* MINING_REWARD to the block's miner.
C7_ThreeTransactionsOneReward ==
    \A i \in NonGenesis :
        /\ Len(db[i].transactions) = TRANSACTIONS_PER_BLOCK
        /\ Cardinality({k \in Indexes(db[i].transactions) :
                          db[i].transactions[k].sender = STORAGE_ADDRESS}) = 1
        /\ \A k \in Indexes(db[i].transactions) :
              db[i].transactions[k].sender = STORAGE_ADDRESS =>
                  /\ db[i].transactions[k].recipient = db[i].miner
                  /\ db[i].transactions[k].amount = MINING_REWARD

\* A peer whose blocks may lack or repeat the reward had a block accepted.
C7_PeerBlockAccepted ==
    /\ last = Call("add_block", "Ok", "NotRun")
    /\ {"short", "no_reward", "two_rewards", "reward_other", "reward_big"}
          \subseteq pool.tampers
    /\ db[Len(db)].miner = PEER

\* C8: every transaction of an accepted block names the block's own
\* previous_hash as its previous_block_hash, and every pending transaction
\* names the hash of the last block: one created against an older tip is
\* not admitted and so is in no block accepted after another was appended.
C8_TransactionsNameTheBlockBefore ==
    /\ \A i \in NonGenesis : \A k \in Indexes(db[i].transactions) :
          /\ db[i].previous_hash /= None
          /\ db[i].transactions[k].previous_block_hash = db[i].previous_hash[1]
          /\ db[i].transactions[k].previous_block_hash = Block_compute_hash(db[i - 1])
    /\ \A t \in PendingTransactions : t.previous_block_hash = get_last_block_hash(db)

\* With two blocks stored, a request naming the first block was rejected
\* while a transaction naming the second is pending.
C8_StaleRequestRejected ==
    /\ Len(db) >= 2
    /\ last = Call("add_transaction", "TransactionPreviousHashMismatch", "NotRun")
    /\ Len(prep.transactions) = 1

TaxRule(t) ==
    t.amount_to_storage
        = IF t.amount >= STORAGE_REWARD_STARTING_FROM THEN STORAGE_REWARD ELSE 0

\* C9: every pending transaction and every transaction of an accepted block
\* has amount_to_storage = STORAGE_REWARD when its amount is at least
\* STORAGE_REWARD_STARTING_FROM and 0 otherwise, those received from the
\* network included.
C9_TaxFollowsAmount ==
    \A t \in PendingTransactions \cup AcceptedTransactions : TaxRule(t)

\* C10: the preparing state never holds more than TRANSACTIONS_PER_BLOCK
\* transactions, at most USER_TRANSACTIONS_PER_BLOCK of them entered through
\* add_transaction requests (between two requests all of them did), and a
\* non-STORAGE request at the limit is answered LimitReached.
C10_PreparingStateWithinLimit ==
    /\ Len(prep.transactions) <= TRANSACTIONS_PER_BLOCK
    /\ Len(prep.transactions) <= USER_TRANSACTIONS_PER_BLOCK
    /\ \A t \in TxInputs(db, pool.templates) :
          t.sender /= STORAGE_ADDRESS
              /\ Len(prep.transactions) >= USER_TRANSACTIONS_PER_BLOCK
          => add_transaction(prep, db, t).result = "LimitReached"

\* C11: add_transaction admits a transaction only when the sender's current
\* balance is at least the integer sum amount + amount_to_storage; a request
\* that only lacks the money is answered NotEnoughMoney; no pending balance
\* leaves 0..2^64-1.
C11_AdmittedOnlyWhenAffordable ==
    /\ \A t \in TxInputs(db, pool.templates) :
          /\ add_transaction(prep, db, t).result = "Ok"
                => get_balance(prep, db, t.sender) >= t.amount + t.amount_to_storage
          /\ ( /\ Transaction_validate_integrity(t, db) = "Ok"
               /\ ~(t.sender /= STORAGE_ADDRESS
                      /\ Len(prep.transactions) = USER_TRANSACTIONS_PER_BLOCK)
               /\ get_balance(prep, db, t.sender) < t.amount + t.amount_to_storage )
                => add_transaction(prep, db, t).result = "NotEnoughMoney"
    /\ \A a \in DOMAIN prep.balance_state : prep.balance_state[a] \in 0..(U64_RANGE - 1)

\* C12: a mining operation that add_block interrupted (between its engine
\* snapshot and the end of its proof-of-work loop) stops with MiningStopped:
\* it never gets past the proof-of-work loop and appends no block.
C12_BlockArrivalAbortsMining ==
    \A h \in Threads :
        threads[h].add_block_ran =>
            threads[h].pc \notin {"sign", "validate", "insert", "install"}

\* C13: a thread that is at the statement inserting a block into the
\* persisted chain holds the engine's write lock.
C13_AppendUnderWriteLock ==
    \A h \in Threads : (At(h, "insert") \/ At(h, "peer_insert")) => lock = h

\* C14: when add_block rejects a peer's block, the handler starts lag
\* recovery exactly when the sender's blockchain_len is strictly greater than
\* the node's chain length; otherwise the request fails with add_block's
\* error and the persisted chain is unchanged.
C14_LagRecoveryIffSenderLonger ==
    (phase = "serving" /\ Len(db) >= 1) =>
        \A info \in BlockAddInfos(db, pool, now) :
            Bind(add_block(db, info.block, FALSE, now), LAMBDA a :
            Bind(handle_add_block(db, info, now), LAMBDA h :
                a.result \notin {"Ok", "Panic"} =>
                    /\ h.transfer <=> (info.blockchain_len > Len(db))
                    /\ ~h.transfer => (h.db = db /\ h.result = a.result)))

\* A peer's block was rejected and no recovery followed.
C14_RejectedWithoutRecovery ==
    /\ last.op = "add_block"
    /\ last.result \notin {"Ok", "Panic"}
    /\ Len(db) >= 2

\* The chain a completed from_str leaves has the length of the served chain
\* and the same body-hash at every height.
SameChain(mine, served) ==
    /\ Len(mine) = Len(served)
    /\ \A i \in 1..Len(served) : Block_compute_hash(mine[i]) = Block_compute_hash(served[i])

C16_RecoveryOnlyLengthens ==
    (phase = "serving" /\ Len(db) >= 1 /\ ~DB_IO_LOCKED) =>
        \A s \in GetBlocksReplies(db, pool.templates, now) :
            Bind(from_str(db, FALSE, temp, s, now), LAMBDA r :
                r.result = "Ok" => Len(r.db) > Len(db))

\* C17: from_str replays into the temporary store and swaps it in only
\* after every received block was accepted; when a block is rejected the
\* temporary store is removed and the live store is as before the call.
C17_RebuildSwapsOnlyOnFullSuccess ==
    (phase = "serving" /\ Len(db) >= 1 /\ ~DB_IO_LOCKED) =>
        \A s \in GetBlocksReplies(db, pool.templates, now) :
            Bind(from_str(db, FALSE, temp, s, now), LAMBDA r :
                /\ r.result \notin {"Ok", "Panic"} => (r.db = db /\ r.temp = <<>>)
                /\ r.result = "Ok" => (Len(r.db) = Len(s) /\ r.temp = <<>>))

\* A lag recovery was abandoned because a received block was rejected.
C17_RebuildRejected ==
    /\ last.op = "from_str"
    /\ last.result \notin {"Ok", "Panic", "Spinning"}
    /\ Len(db) >= 1
    /\ temp = <<>>

\* C18: a failed lag recovery leaves the rebuild guard DB_IO_LOCKED released
\* while the node serves, and no handler ends up spinning on the guard
\* forever.
C18_FailedRecoveryLeavesNodeHealthy ==
    /\ phase = "serving" => ~DB_IO_LOCKED
    /\ phase /= "hung"

\* The threads inside the rebuild critical section.
Rebuilding == {h \in Threads : At(h, "replay")}

\* C19: at most one rebuild is between the creation of the temporary store
\* and the swap; it holds the write lock and the guard, and the rows of the
\* temporary store are the ones this rebuild alone has replayed, so the
\* chain it swaps in is the chain it produces when run alone.
C19_SingleFlightRebuild ==
    /\ Cardinality(Rebuilding) <= 1
    /\ \A h \in Rebuilding :
          /\ lock = h
          /\ DB_IO_LOCKED
          /\ temp = from_str_replay(
                       [k \in 1..(threads[h].i - 1) |->
                           Block_from_json(threads[h].reply[k])], 1, <<>>, now).db
          /\ Len(temp) = threads[h].i - 1

\* A second recovery has fetched its blocks while another one is replaying.
C19_ConcurrentRebuilds ==
    \E h, g \in Threads :
        /\ At(h, "replay") /\ threads[h].i = 2
        /\ At(g, "fetched")

\* C20: every AddTransaction request is answered with exactly one package,
\* AddTransactionSuccess exactly when the transaction entered the preparing
\* state and AddTransactionFail otherwise.
C20_ExactlyOneReply ==
    phase = "serving" =>
        \A t \in TxInputs(db, pool.templates) :
            Bind(handle_add_transaction(prep, db, t, now), LAMBDA h :
                /\ Len(h.replies) = 1
                /\ h.replies = <<"AddTransactionSuccess">> <=> h.result = "Ok")

\* C21: a handler that has admitted the transaction which filled the
\* preparing state does not return before it has read minable(): its next
\* step takes it past the reply, whatever the client's connection does.
C21_AdmittingHandlerGoesOnToMine ==
    [][\A h \in Threads :
          (At(h, "admitted") /\ PreparingBlockState_filled(prep)
                /\ threads'[h].pc /= "admitted")
            => threads'[h].pc = "replied"]_vars

\* The peers of the configuration.
PeerNodes == {config_nodes[k] : k \in 1..Len(config_nodes)}

C23_MinedBlockKeepsAdmissionOrder ==
    phase = "serving" =>
        \A t \in TxInputs(db, pool.templates) :
            Bind(handle_add_transaction(prep, db, t, now), LAMBDA h :
                h.mined = "Ok" =>
                    Bind(h.db[Len(h.db)].transactions, LAMBDA ts :
                        /\ Len(ts) = Len(prep.transactions) + 2
                        /\ SubSeq(ts, 1, Len(prep.transactions)) = prep.transactions
                        /\ ts[Len(ts) - 1] = t
                        /\ ts[Len(ts)].sender = STORAGE_ADDRESS
                        /\ ts[Len(ts)].recipient = MINER
                        /\ ts[Len(ts)].amount = MINING_REWARD))

\* A handler has mined a block of two user transactions and the reward.
C23_BlockOfThreeMined ==
    /\ last = Call("add_transaction", "Ok", "Ok")
    /\ Len(db[Len(db)].transactions) = TRANSACTIONS_PER_BLOCK
    /\ db[Len(db)].transactions[1] /= db[Len(db)].transactions[2]

\* C24: an AddBlock request from an address that is not a configured peer
\* is refused with the persisted chain, the preparing state and the mining
\* flag as they were, and without a lag recovery.
C24_UnknownSenderHasNoEffect ==
    (phase = "serving" /\ Len(db) >= 1) =>
        \A info \in BlockAddInfos(db, pool, now) :
            Bind(handle_add_block_from("N3", prep, IS_MINING, db, info, now), LAMBDA h :
                /\ h.result /= "Ok"
                /\ h.db = db
                /\ h.prep = prep
                /\ h.IS_MINING = IS_MINING
                /\ ~h.transfer)

\* A request from an unknown address was refused while a transaction was
\* pending.
C24_UnknownSenderRefused ==
    /\ last = Call("add_block", "InvalidSender", "NotRun")
    /\ Len(prep.transactions) >= 1

\* The blocks Block::new hands to the proof-of-work search: the bodies of
\* the stored blocks with the nonce Block::new gives them.
Unmined == {[db[i] EXCEPT !.nonce = 0, !.miner_signature = None] : i \in 1..Len(db)}

\* C25: a successful generate_proof_of_work leaves a block whose body-hash
\* starts with PROOF_OF_WORK_DIFFICULTY zeros, with the smallest nonce
\* counted up from 0 that achieves it, after at most nonce + 1 tests, and
\* with every other field as it was.
C25_ProofOfWorkPostcondition ==
    \A b \in Unmined :
        Bind(generate_proof_of_work_loop(b, 0), LAMBDA r :
            /\ Block_validate_proof_of_work(r.block) = "Ok"
            /\ LeadingZeros(Block_compute_hash(r.block)) >= PROOF_OF_WORK_DIFFICULTY
            /\ \A m \in 0..(r.block.nonce - 1) :
                  Block_validate_proof_of_work([b EXCEPT !.nonce = m]) /= "Ok"
            /\ r.tested <= r.block.nonce + 1
            /\ r.block = [b EXCEPT !.nonce = r.block.nonce]
            /\ generate_proof_of_work(b) = r.block)

\* The chain holds a block mined at nonce 0 and a block that needed more
\* than one candidate.
C25_SearchesOfDifferentLength ==
    \E i, j \in 1..Len(db) :
        /\ db[i].miner = MINER /\ db[j].miner = MINER
        /\ db[i].nonce = 0
        /\ db[j].nonce >= 1

\* C26: created_at is strictly increasing along the persisted chain and no
\* stored non-genesis block is dated later than the node's clock.
C26_CreatedAtStrictlyIncreasing ==
    /\ \A i \in 2..Len(db) : db[i].created_at > db[i - 1].created_at
    /\ \A i \in 2..Len(db) : db[i].created_at <= now

\* The storage tax the transactions txs pay.
StorageTax(txs) ==
    SumOver([k \in Indexes(txs) |-> txs[k].amount_to_storage], Indexes(txs))

\* C27: no pending transaction and no transaction of an accepted block has
\* STORAGE as recipient, and the balance of STORAGE grows, from one block to
\* the next and in the preparing state, by no more than the storage tax of
\* the transactions.
C27_StorageCreditedOnlyByTax ==
    /\ \A t \in AcceptedTransactions \cup PendingTransactions :
          t.recipient /= STORAGE_ADDRESS
    /\ \A i \in NonGenesis :
          BalanceAsOf(SubSeq(db, 1, i), STORAGE_ADDRESS)
              <= BalanceAsOf(Before(i), STORAGE_ADDRESS) + StorageTax(db[i].transactions)
    /\ get_balance(prep, db, STORAGE_ADDRESS)
          <= BalanceAsOf(db, STORAGE_ADDRESS) + StorageTax(prep.transactions)

\* A request paying STORAGE was refused.
C27_PaymentToStorageRefused ==
    /\ last.op \in {"add_transaction", "add_block"}
    /\ last.result = "RecipientIsStorage"

\* C28: launch mines a genesis block exactly when the stored chain is
\* empty; the chain then has one block, without previous_hash and without
\* transactions, and the balances of the miner and of STORAGE are
\* GENESIS_BLOCK_REWARD and STORAGE_START_BALANCE.
C28_GenesisAtLaunchIffEmpty ==
    phase = "launch" =>
        Bind(launch(db, now), LAMBDA l :
            /\ (l.op = "mine_genesis_block") <=> (Len(db) = 0)
            /\ Len(db) /= 0 => l.db = db
            /\ Len(db) = 0 =>
                  /\ l.result = "Ok"
                  /\ Len(l.db) = 1
                  /\ l.db[1].previous_hash = None
                  /\ l.db[1].transactions = <<>>
                  /\ get_balance(PreparingBlockState_new, l.db, MINER)
                        = GENESIS_BLOCK_REWARD
                  /\ get_balance(PreparingBlockState_new, l.db, STORAGE_ADDRESS)
                        = STORAGE_START_BALANCE)

\* A node that started on an empty store serves with its genesis block.
C28_GenesisMined ==
    /\ phase = "serving"
    /\ last = Call("mine_genesis_block", "Ok", "NotRun")
    /\ Len(db) = 1

C30_SizeLimitBeforePayload ==
    /\ (net.received /= None /\ net.read >= HeaderLen) =>
          Bind(from_be_bytes(SubSeq(net.incoming, 1, HeaderLen)), LAMBDA L :
              /\ net.received[1].result = "TooBig" <=> L > net.max_size
              /\ L > net.max_size => (net.read = HeaderLen /\ net.received[1].bytes = <<>>))
    /\ net.sent /= None =>
          /\ net.sent[1].result = "TooBig" <=> net.sent[1].len > net.max_size
          /\ net.sent[1].result = "TooBig" => net.outgoing = <<>>
          /\ net.sent[1].result = "Ok" =>
                /\ Len(net.outgoing) = HeaderLen + net.sent[1].len
                /\ from_be_bytes(SubSeq(net.outgoing, 1, HeaderLen)) = net.sent[1].len
                /\ SubSeq(net.outgoing, HeaderLen + 1, Len(net.outgoing)) = Json(net.sent[1].len)

\* A receive refused a length with payload bytes waiting, and a send refused
\* a package, on the same connection.
C30_BothRefused ==
    /\ net.received /= None /\ net.received[1].result = "TooBig"
    /\ Len(net.incoming) > HeaderLen
    /\ net.sent /= None /\ net.sent[1].result = "TooBig"

\* C31: whenever a handler thread runs the entry assertions of mine_block,
\* IS_MINING is false, under every interleaving of AddTransaction and
\* AddBlock handlers.
C31_MiningFlagFalseAtEntry ==
    [][\A h \in Threads :
          (At(h, "assert") /\ threads'[h].pc /= "assert") => ~IS_MINING]_vars

\* The six checks of validate_integrity on block b, each run on its own, in
\* the order the claim gives.
IntegrityChecks(b) ==
    <<Block_validate_previous_hash(b, db), Block_validate_proof_of_work(b),
      Block_validate_is_signed(b), Block_validate_miner_signature(b),
      Block_validate_transactions(b, db), Block_validate_created_at(b, db, now)>>

\* C32: validate_integrity reports the first failing check in the order
\* previous-hash, proof-of-work, is-signed, miner-signature, transactions,
\* timestamp, and every announced block whose previous_hash is not the hash
\* of the chain's last block, an absent previous_hash included, is rejected
\* with the previous-hash mismatch error.
C32_ChecksInOrderPreviousHashFirst ==
    (phase = "serving" /\ Len(db) >= 1) =>
        \A info \in BlockAddInfos(db, pool, now) :
            Bind(IntegrityChecks(info.block), LAMBDA checks :
            Bind({k \in 1..Len(checks) : checks[k] /= "Ok"}, LAMBDA failing :
                /\ Block_validate_integrity(info.block, db, now) =
                      (IF failing = {} THEN "Ok" ELSE checks[Min(failing)])
                /\ info.block.previous_hash /= Some(get_last_block_hash(db))
                      => Block_validate_integrity(info.block, db, now)
                            = "PreviousHashMismatch"))

\* C33: whenever an admitted transaction fills the preparing state and
\* mine_block builds a block from it, that block passes validate_integrity
\* and is appended, a transaction whose sender is its recipient and a
\* transaction admitted twice included.
C33_MinedBlockPassesOwnValidation ==
    (phase = "serving" /\ Len(db) >= 1) =>
        \A t \in TxInputs(db, pool.templates) :
            Bind(add_transaction(prep, db, t), LAMBDA r :
                (r.result = "Ok" /\ PreparingBlockState_filled(r.prep)) =>
                    Bind(mine_block_prepare(r.prep, db, MINER, now, EngineRandom),
                         LAMBDA m :
                        m.result = "Ok" =>
                            mine_block_finish(db, m.block[1], MINER, now).result = "Ok"))

\* C34: an AddTransaction request naming STORAGE as sender is rejected and
\* leaves STORAGE's projected balance as it was, and between two handlers
\* the preparing state holds no transaction sent by STORAGE (the self-reward
\* of mine_block leaves with the mined block).
C34_StorageSpendsOnlyByReward ==
    (phase = "serving" /\ Len(db) >= 1) =>
        /\ \A t \in TxInputs(db, pool.templates) :
              t.sender = STORAGE_ADDRESS =>
                  Bind(add_transaction(prep, db, t), LAMBDA r :
                      /\ r.result \notin {"Ok"}
                      /\ get_balance(r.prep, db, STORAGE_ADDRESS)
                            = get_balance(prep, db, STORAGE_ADDRESS))
        /\ \A i \in 1..Len(prep.transactions) :
              prep.transactions[i].sender /= STORAGE_ADDRESS

\* C35: an AddBlock request of a configured peer whose block add_block
\* rejects (and that starts no lag recovery) leaves the persisted chain,
\* the preparing state and IS_MINING as they were before the request.
C35_RejectedBlockChangesNothing ==
    (phase = "serving" /\ Len(db) >= 1) =>
        \A info \in BlockAddInfos(db, pool, now) :
            Bind(handle_add_block_from(config_nodes[1], prep, IS_MINING, db, info, now),
                 LAMBDA h :
                (h.result \notin {"Ok", "Panic"} /\ ~h.transfer) =>
                    /\ h.db = db
                    /\ h.prep = prep
                    /\ h.IS_MINING = IS_MINING)

\* C36: when a thread that finished mining installs its engine copy
\* (helpers.rs:29), every transaction pending in the shared engine at that
\* moment is either part of the block the thread mined or still pending
\* afterwards: nothing admitted since the copy was taken is discarded.
C36_InstallKeepsLaterAdmissions ==
    [][\A h \in Threads :
          (At(h, "install") /\ threads'[h].pc = "idle") =>
              \A i \in 1..Len(prep.transactions) :
                  \/ \E j \in 1..Len(threads[h].block[1].transactions) :
                        threads[h].block[1].transactions[j] = prep.transactions[i]
                  \/ \E j \in 1..Len(prep'.transactions) :
                        prep'.transactions[j] = prep.transactions[i]]_vars

\* C37: an add_transaction call that returns an error (LimitReached, an
\* integrity error or NotEnoughMoney) returns the preparing state it was
\* given: the pending transactions and every projected balance are unchanged,
\* and so they are after the handler of such a request.
C37_FailedAdmissionChangesNothing ==
    (phase = "serving" /\ Len(db) >= 1) =>
        \A t \in TxInputs(db, pool.templates) :
            /\ add_transaction(prep, db, t).result \notin {"Ok", "Panic"}
                  => add_transaction(prep, db, t).prep = prep
            /\ handle_add_transaction(prep, db, t, now).result \notin {"Ok", "Panic"}
                  => handle_add_transaction(prep, db, t, now).prep = prep

\* A request was refused for lack of money while another transaction was
\* pending.
C37_RefusedWhilePending ==
    /\ last.op = "add_transaction"
    /\ last.result = "NotEnoughMoney"
    /\ Len(prep.transactions) >= 1

\* The last handler ran helpers.rs mine_block and it returned an error.
MiningFailed ==
    /\ phase = "serving"
    /\ last.op = "add_transaction"
    /\ last.mined \notin {"NotRun", "Ok"}

\* C38: with no block arriving from a peer, a failed local mining attempt is
\* always followed by a state whose preparing state has room for a user
\* transaction again.
C38_FailedMiningDoesNotBlockAdmission ==
    MiningFailed ~> (Len(prep.transactions) < USER_TRANSACTIONS_PER_BLOCK)

\* The transactions of block i of the persisted chain.
TransactionsOf(i) == {db[i].transactions[k] : k \in 1..Len(db[i].transactions)}

\* C39: no transaction is in two different blocks of the persisted chain,
\* and no request carrying a transaction of a persisted block is admitted
\* into the preparing state.
C39_NoTransactionInTwoBlocks ==
    /\ \A i, j \in 1..Len(db) : i < j => TransactionsOf(i) \cap TransactionsOf(j) = {}
    /\ (phase = "serving" /\ Len(db) >= 1) =>
          \A t \in TxInputs(db, pool.templates) :
              (\E i \in 1..Len(db) : t \in TransactionsOf(i))
                  => add_transaction(prep, db, t).result /= "Ok"

\* C40: once launch() has run, the persisted chain holds at least one block
\* (len() >= 1, so get_last_block_hash has a row to read), whatever handlers
\* and rebuilds followed.
C40_ChainNeverEmptyAfterLaunch ==
    phase /= "launch" => (Len(db) >= 1 /\ ~Blockchain_is_empty(db))

=============================================================================
